---- MODULE Spec2Model ----
(***************************************************************************)
(* FPL-Edge: the rate-limited fetchers (processors/getters.py,             *)
(* scrapers/fbref_get_data.py, scrapers/fbref_get_ids.py) and the FPL /    *)
(* FBRef identity reconciler (processors/merge_ids.py, runners/run_all.py) *)
(* as state machines.  Each procedure has its own specification            *)
(* (SpecFpl, SpecBatch, SpecFuzzy, SpecRecon, SpecSift, SpecRerun,         *)
(* SpecMerge, SpecPipe, SpecSeason, SpecIds); the variables of the other   *)
(* procedures stay at their initial values.                                *)
(***************************************************************************)
EXTENDS Integers, Sequences, FiniteSets, TLC

VARIABLES
    \* ---- make_fpl_request (getters.py) ----
    fpl_pc,          \* "idle" | "loop" | "returned" | "raised"
    max_retries,     \* argument
    retry_delay,     \* argument, reassigned by the 429 handler
    fpl_delay0,      \* history: retry_delay as the caller passed it
    attempt,         \* loop variable of `for attempt in range(max_retries)`
    fpl_outcomes,    \* history: outcome of every requests.get issued
    fpl_sleeps,      \* history: duration of every time.sleep performed
    fpl_result,      \* what the call returned or raised
    \* ---- collect_players_data (fbref_get_data.py) and
    \*      collect_team_players (fbref_get_ids.py) ----
    batch_fn,        \* which of the two batch functions is running
    batch_pc,        \* "start" | "loop" | "returned" | "raised"
    call_rate,       \* argument
    batch_retries,   \* argument max_retries (get_url_list: its default)
    wait_time,       \* local wait_time of the batch function
    batch_items,     \* rows of df (TRUE: id_fbref is a str) / teams_list
    batch_idx,       \* position of the for loop, 1-based
    retries,         \* local retries of the current row / get_url_list call
    batch_log,       \* history: every file read, GET and sleep, in order
    collected,       \* df_list / player_urls, as the items they came from
    batch_result,    \* what the call returned or raised
    \* ---- fuzzy_match (merge_ids.py), called on its own ----
    fz_pc,           \* "idle" | "call" | "returned" | "raised"
    fz_threshold,    \* argument threshold
    fz_top,          \* what scorer(name, choices) answers
    fz_result,       \* the value returned
    \* ---- merge_fpl_fbref_ids (run_all.py) ----
    rc_pc,           \* the statement the run has reached
    fpl_ids,         \* player_idlist.csv: rows (id, first_name, second_name)
    fbref_ids,       \* fbref_ids.csv: rows (name, id)
    previous_merged_ids, \* last season's player_compiled_ids.csv, or NoFile
    scores,          \* the scorer's answers so far: (query, choice) -> score
    merged,          \* the local DataFrame merged
    matched,         \* the local DataFrame matched
    unmatched,       \* the local DataFrame unmatched
    cursor,          \* row of unmatched the running sift loop handled last
    presented,       \* related_names shown at the last prompt
    final_matched,   \* merged_df returned by process_player_matches
    missing_players, \* the list returned with it
    saved,           \* the two artifacts save_data has written
    typed,           \* history: the last prompt and what input() returned
    earlier,         \* the run before this one, when the run is repeated
    \* ---- merge_all_gameweeks (collectors.py) ----
    mg_pc,           \* "idle" | "start" | "loop" | "returned" | "raised"
    start_gw,        \* argument
    end_gw,          \* argument
    gw_files,        \* gws/gw_<n>.csv, for every gameweek n
    merged_file,     \* merged_gw.csv
    gw,              \* loop variable of `for gw in range(start_gw, end_gw + 1)`
    errors,          \* local list errors, as the gameweeks it names
    \* ---- the runners (run_all.py) and global_scraper ----
    pl_pc,           \* "idle" | "start" | "running" | "returned" | "raised"
    pl_fn,           \* the function called
    seasons,         \* its season argument(s), one entry per season
    collect_idx,     \* argument collect_idx
    pl_todo,         \* the calls still ahead, in order
    pl_log,          \* history: every stage that did I/O, and how it ended
    pl_error,        \* the exception the call raised, if any
    \* ---- get_previous_season (run_all.py) ----
    sn_pc,           \* "idle" | "ready" | "raised"
    season_str,      \* the season string in hand
    season0,         \* history: the season string started from
    season_ops,      \* history: the steps applied to it, in order
    \* ---- get_ids (fbref_get_ids.py) ----
    ids_pc,          \* "idle" | "call" | "returned" | "raised"
    url_list,        \* argument
    unique_ids       \* the list returned

fplVars == <<fpl_pc, max_retries, retry_delay, fpl_delay0, attempt,
             fpl_outcomes, fpl_sleeps, fpl_result>>

batchVars == <<batch_fn, batch_pc, call_rate, batch_retries, wait_time,
               batch_items, batch_idx, retries, batch_log, collected,
               batch_result>>

fuzzyVars == <<fz_pc, fz_threshold, fz_top, fz_result>>

reconVars == <<rc_pc, fpl_ids, fbref_ids, previous_merged_ids, scores, merged,
               matched, unmatched, cursor, presented, final_matched,
               missing_players, saved, typed, earlier>>

mergeVars == <<mg_pc, start_gw, end_gw, gw_files, merged_file, gw, errors>>

pipeVars == <<pl_pc, pl_fn, seasons, collect_idx, pl_todo, pl_log, pl_error>>

seasonVars == <<sn_pc, season_str, season0, season_ops>>

idsVars == <<ids_pc, url_list, unique_ids>>

runnerVars == <<mergeVars, pipeVars, seasonVars, idsVars>>

vars == <<fplVars, batchVars, fuzzyVars, reconVars, runnerVars>>

\* What each procedure leaves alone: the state of the others.
notFplVars == <<batchVars, fuzzyVars, reconVars, runnerVars>>
notBatchVars == <<fplVars, fuzzyVars, reconVars, runnerVars>>
notFuzzyVars == <<fplVars, batchVars, reconVars, runnerVars>>
notReconVars == <<fplVars, batchVars, fuzzyVars, runnerVars>>
fetcherVars == <<fplVars, batchVars, fuzzyVars, reconVars>>
notMergeVars == <<fetcherVars, pipeVars, seasonVars, idsVars>>
notPipeVars == <<fetcherVars, mergeVars, seasonVars, idsVars>>
notSeasonVars == <<fetcherVars, mergeVars, pipeVars, idsVars>>
notIdsVars == <<fetcherVars, mergeVars, pipeVars, seasonVars>>

\* A string is the sequence of its space-separated tokens ("Ben Davies" is
\* <<"Ben", "Davies">>); a missing value (NaN) is the token NaN alone, which
\* is also what read_csv makes of the text "NaN".
NaN == <<"NaN">>

isna(v) == v = NaN

(***************************************************************************)
(* make_fpl_request                                                        *)
(***************************************************************************)

\* Largest max_retries argument explored.
MaxRetries == 3

\* retry_delay arguments explored (5 is the default).
RetryDelays == {2, 5}

\* Retry-After header of a response: absent (-1), or a number of seconds.
NoHeader == -1
RetryAfterValues == {NoHeader, 1, 7}

\* HTTP statuses a response may carry.
HttpErrorStatuses == {404, 429, 500}

\* What one requests.get(...) + raise_for_status() + response.json() does.
\*   ok          2xx response with a JSON body
\*   http        4xx/5xx response: raise_for_status raises HTTPError
\*   connection  requests.get raises ConnectionError
\*   timeout     requests.get raises Timeout
\*   badjson     2xx response whose body is not JSON: json.JSONDecodeError
\*   other       any other exception
GetOutcomes ==
    [kind : {"ok", "connection", "timeout", "badjson", "other"},
     status : {0}, retry_after : {NoHeader}]
    \cup [kind : {"http"}, status : HttpErrorStatuses,
          retry_after : RetryAfterValues]

\* response.headers.get('Retry-After', retry_delay), as an int
HeaderOr(retry_after, default) ==
    IF retry_after = NoHeader THEN default ELSE retry_after

\* The last-attempt test off by one: `attempt == max_retries`.
IsLastAttemptOffByOne(a, m) == a = m

\* `attempt == max_retries - 1`
IsLastAttempt(a, m) == a = m - 1

\* The except clauses with `except Exception` listed before
\* `except json.JSONDecodeError`.
HandlerOfGenericFirst(o) ==
    CASE o.kind = "http"       -> "HTTPError"
      [] o.kind = "connection" -> "ConnectionError"
      [] o.kind = "timeout"    -> "Timeout"
      [] o.kind = "badjson"    -> "Exception"
      [] o.kind = "other"      -> "Exception"
      [] OTHER                 -> "none"

\* The except clause that catches the outcome of an attempt.
HandlerOf(o) ==
    CASE o.kind = "http"       -> "HTTPError"
      [] o.kind = "connection" -> "ConnectionError"
      [] o.kind = "timeout"    -> "Timeout"
      [] o.kind = "badjson"    -> "JSONDecodeError"
      [] o.kind = "other"      -> "Exception"
      [] OTHER                 -> "none"

Payload == [kind |-> "payload", status |-> 0]
FPLRequestError(status) == [kind |-> "FPLRequestError", status |-> status]
FPLDataParsingError == [kind |-> "FPLDataParsingError", status |-> 0]
NoneResult == [kind |-> "None", status |-> 0]
NoResult == [kind |-> "pending", status |-> 0]

\* make_fpl_request is not running.
FplIdle ==
    /\ fpl_pc = "idle"
    /\ max_retries = 0
    /\ retry_delay = 0
    /\ fpl_delay0 = 0
    /\ attempt = 0
    /\ fpl_outcomes = <<>>
    /\ fpl_sleeps = <<>>
    /\ fpl_result = NoResult

FplInit ==
    /\ fpl_pc = "loop"
    /\ max_retries \in 0..MaxRetries
    /\ retry_delay \in RetryDelays
    /\ fpl_delay0 = retry_delay
    /\ attempt = 0
    /\ fpl_outcomes = <<>>
    /\ fpl_sleeps = <<>>
    /\ fpl_result = NoResult

\* The call is at the top of the for loop with an iteration left.
FplIterating == fpl_pc = "loop" /\ attempt < max_retries

FplReturn(r) ==
    /\ fpl_pc' = "returned"
    /\ fpl_result' = r

FplRaise(e) ==
    /\ fpl_pc' = "raised"
    /\ fpl_result' = e

\* Lines 74-76: time.sleep(retry_delay), then the next iteration.
FplSleepAndRetry ==
    /\ fpl_sleeps' = Append(fpl_sleeps, retry_delay)
    /\ attempt' = attempt + 1
    /\ fpl_pc' = "loop"
    /\ UNCHANGED <<fpl_result, retry_delay>>

\* One iteration whose GET succeeds: return response.json().
FplAttemptOk ==
    /\ FplIterating
    /\ \E o \in GetOutcomes :
        /\ HandlerOf(o) = "none"
        /\ fpl_outcomes' = Append(fpl_outcomes, o)
    /\ FplReturn(Payload)
    /\ UNCHANGED <<max_retries, fpl_delay0, retry_delay, attempt, fpl_sleeps>>
    /\ UNCHANGED notFplVars

\* One iteration whose response has an error status: except HTTPError.
\* For a 429 retry_delay is reassigned, and then FPLRequestError is raised
\* for every status (the raise is not under an else).
FplAttemptHttpError ==
    /\ FplIterating
    /\ \E o \in GetOutcomes :
        /\ HandlerOf(o) = "HTTPError"
        /\ fpl_outcomes' = Append(fpl_outcomes, o)
        /\ retry_delay' = IF o.status = 429
                             THEN HeaderOr(o.retry_after, retry_delay)
                             ELSE retry_delay
        /\ FplRaise(FPLRequestError(o.status))
    /\ UNCHANGED <<max_retries, fpl_delay0, attempt, fpl_sleeps>>
    /\ UNCHANGED notFplVars

\* One iteration whose GET raises ConnectionError or Timeout: raise on the
\* last attempt, otherwise fall through to the sleep.
FplAttemptConnectionError ==
    /\ FplIterating
    /\ \E o \in GetOutcomes :
        /\ HandlerOf(o) \in {"ConnectionError", "Timeout"}
        /\ fpl_outcomes' = Append(fpl_outcomes, o)
    /\ IF IsLastAttempt(attempt, max_retries)
          THEN /\ FplRaise(FPLRequestError(0))
               /\ UNCHANGED <<retry_delay, attempt, fpl_sleeps>>
          ELSE FplSleepAndRetry
    /\ UNCHANGED <<max_retries, fpl_delay0>>
    /\ UNCHANGED notFplVars

\* One iteration whose body is not JSON: except json.JSONDecodeError.
FplAttemptBadJson ==
    /\ FplIterating
    /\ \E o \in GetOutcomes :
        /\ HandlerOf(o) = "JSONDecodeError"
        /\ fpl_outcomes' = Append(fpl_outcomes, o)
    /\ FplRaise(FPLDataParsingError)
    /\ UNCHANGED <<max_retries, fpl_delay0, retry_delay, attempt, fpl_sleeps>>
    /\ UNCHANGED notFplVars

\* One iteration that raises anything else: except Exception.
FplAttemptOtherError ==
    /\ FplIterating
    /\ \E o \in GetOutcomes :
        /\ HandlerOf(o) = "Exception"
        /\ fpl_outcomes' = Append(fpl_outcomes, o)
    /\ FplRaise(FPLRequestError(0))
    /\ UNCHANGED <<max_retries, fpl_delay0, retry_delay, attempt, fpl_sleeps>>
    /\ UNCHANGED notFplVars

\* range(max_retries) is exhausted: the function body ends, returning None.
FplLoopExhausted ==
    /\ fpl_pc = "loop"
    /\ attempt >= max_retries
    /\ FplReturn(NoneResult)
    /\ UNCHANGED <<max_retries, fpl_delay0, retry_delay, attempt,
                   fpl_outcomes, fpl_sleeps>>
    /\ UNCHANGED notFplVars

make_fpl_request ==
    \/ FplAttemptOk
    \/ FplAttemptHttpError
    \/ FplAttemptConnectionError
    \/ FplAttemptBadJson
    \/ FplAttemptOtherError
    \/ FplLoopExhausted


(***************************************************************************)
(* collect_players_data and collect_team_players                           *)
(***************************************************************************)

\* Largest call_rate argument explored.
MaxCallRate == 12

\* The call-rate ceiling of both batch functions (`if call_rate > 10`).
CallRateLimit == 10

\* call_rate arguments explored.
CallRates == {1, 5, CallRateLimit} \cup (CallRateLimit + 1)..MaxCallRate

\* Largest number of rows of df / teams explored.
MaxItems == 2

\* Largest max_retries argument of collect_players_data explored.
MaxBatchRetries == 2

\* get_url_list's max_retries default, which collect_team_players relies on.
UrlListRetries == 3

\* The seconds per minute in `wait_time = 60 / call_rate`.
Minute == 60

\* The Retry-After default of both scrapers' 429 handlers.
DefaultRetryAfter == 10

\* Retry-After headers explored for the FBRef responses.
FbrefRetryAfter == {NoHeader, 2}

\* A duration in seconds, as the exact fraction num / den.
Seconds(n) == [num |-> n, den |-> 1]

\* `wait_time = 60 / call_rate`
PacingDelay(rate) == [num |-> Minute, den |-> rate]

\* d1 >= d2, for durations
AtLeast(d1, d2) == d1.num * d2.den >= d2.num * d1.den

\* The guard with which both functions open, with >= for >.
CallRateTooHighInclusive(rate) == rate >= CallRateLimit

\* The guard with which both functions open: `if call_rate > 10`.
CallRateTooHigh(rate) == rate > CallRateLimit

ReadEvent == [ev |-> "read", item |-> 0, res |-> "ok", dur |-> Seconds(0)]
\* A GET for item i and how it ended: "ok", "429" or "error".
GetEvent(i, res) == [ev |-> "get", item |-> i, res |-> res, dur |-> Seconds(0)]
SleepEvent(i, d) == [ev |-> "sleep", item |-> i, res |-> "ok", dur |-> d]
\* player_urls.extend(value), value being what get_url_list handed back
\* for team i: "list" or "None".
ExtendEvent(i, value) ==
    [ev |-> "extend", item |-> i, res |-> value, dur |-> Seconds(0)]

\* get_url_list line 84: `return player_urls`, a list.
PlayerUrls == "list"

\* get_url_list after its while loop (lines 69-98): the function body ends
\* with no return statement, so the call evaluates to None.
UrlListExhausted == "None"

SeqsUpTo(S, n) == UNION {[1..k -> S] : k \in 0..n}

BatchIdle ==
    /\ batch_fn = "none"
    /\ batch_pc = "idle"
    /\ call_rate = 0
    /\ batch_retries = 0
    /\ wait_time = Seconds(0)
    /\ batch_items = <<>>
    /\ batch_idx = 0
    /\ retries = 0
    /\ batch_log = <<>>
    /\ collected = <<>>
    /\ batch_result = "pending"

BatchInit ==
    /\ batch_fn \in {"collect_players_data", "collect_team_players",
                     "global_scraper"}
    /\ batch_pc = "start"
    /\ call_rate \in IF batch_fn = "global_scraper" THEN {0} ELSE CallRates
    /\ batch_retries \in CASE batch_fn = "collect_players_data"
                                -> 0..MaxBatchRetries
                           [] batch_fn = "collect_team_players"
                                -> {UrlListRetries}
                           [] OTHER -> {1}
    /\ wait_time = Seconds(0)
    /\ batch_items \in IF batch_fn = "collect_players_data"
                         THEN SeqsUpTo(BOOLEAN, MaxItems)
                         ELSE SeqsUpTo({TRUE}, MaxItems)
    /\ batch_idx = 0
    /\ retries = 0
    /\ batch_log = <<>>
    /\ collected = <<>>
    /\ batch_result = "pending"

BatchArgsUnchanged == UNCHANGED <<batch_fn, call_rate, batch_retries, batch_items>>

BatchRaise(e) ==
    /\ batch_pc' = "raised"
    /\ batch_result' = e

\* A per-player `except Exception` that re-raised instead of going on.
AfterPlayerErrorRaises == "raised"

\* Where the per-player `except Exception` handlers of collect_players_data
\* and global_scraper leave the batch: still in its loop.
AfterPlayerError == "loop"

BatchInLoop(fn) ==
    /\ batch_fn = fn
    /\ batch_pc = "loop"
    /\ batch_idx <= Len(batch_items)

\* ---- collect_players_data ----

\* Lines 116-121: the call-rate guard, then the initial variables.
CpdStart ==
    /\ batch_fn = "collect_players_data"
    /\ batch_pc = "start"
    /\ IF CallRateTooHigh(call_rate)
          THEN /\ BatchRaise("ValueError")
               /\ UNCHANGED <<wait_time, batch_idx>>
          ELSE /\ wait_time' = PacingDelay(call_rate)
               /\ batch_idx' = 1
               /\ batch_pc' = "loop"
               /\ UNCHANGED batch_result
    /\ UNCHANGED <<retries, batch_log, collected>>
    /\ BatchArgsUnchanged
    /\ UNCHANGED notBatchVars

\* A row whose id_fbref is not a str: nothing is done for it.
CpdSkipRow ==
    /\ BatchInLoop("collect_players_data")
    /\ ~batch_items[batch_idx]
    /\ batch_idx' = batch_idx + 1
    /\ retries' = 0
    /\ UNCHANGED <<batch_pc, wait_time, batch_log, collected, batch_result>>
    /\ BatchArgsUnchanged
    /\ UNCHANGED notBatchVars

CpdTrying ==
    /\ BatchInLoop("collect_players_data")
    /\ batch_items[batch_idx]
    /\ retries < batch_retries

\* The fetch succeeds: append, time.sleep(wait_time), break.
CpdFetchOk ==
    /\ CpdTrying
    /\ batch_log' = batch_log \o <<GetEvent(batch_idx, "ok"),
                                   SleepEvent(batch_idx, wait_time)>>
    /\ collected' = Append(collected, batch_idx)
    /\ batch_idx' = batch_idx + 1
    /\ retries' = 0
    /\ UNCHANGED <<batch_pc, wait_time, batch_result>>
    /\ BatchArgsUnchanged
    /\ UNCHANGED notBatchVars

\* The fetch answers 429: get_individual_player_data raises
\* FBRefRateLimitError naming the Retry-After value (default 10); the handler
\* parses it back into wait_time, sleeps that long and counts a retry.
CpdFetchRateLimited ==
    /\ CpdTrying
    /\ \E h \in FbrefRetryAfter :
        LET w == Seconds(HeaderOr(h, DefaultRetryAfter)) IN
        /\ wait_time' = w
        /\ batch_log' = batch_log \o <<GetEvent(batch_idx, "429"),
                                       SleepEvent(batch_idx, w)>>
    /\ retries' = retries + 1
    /\ UNCHANGED <<batch_pc, batch_idx, collected, batch_result>>
    /\ BatchArgsUnchanged
    /\ UNCHANGED notBatchVars

\* The fetch fails otherwise (HTTPError of another status, PlayerDataError):
\* `except Exception` logs it and counts a retry, without sleeping.
CpdFetchFailed ==
    /\ CpdTrying
    /\ batch_log' = Append(batch_log, GetEvent(batch_idx, "error"))
    /\ retries' = retries + 1
    /\ batch_pc' = AfterPlayerError
    /\ UNCHANGED <<wait_time, batch_idx, collected, batch_result>>
    /\ BatchArgsUnchanged
    /\ UNCHANGED notBatchVars

\* The while loop ends with retries == max_retries: log, next row.
CpdRowExhausted ==
    /\ BatchInLoop("collect_players_data")
    /\ batch_items[batch_idx]
    /\ retries >= batch_retries
    /\ batch_idx' = batch_idx + 1
    /\ retries' = 0
    /\ UNCHANGED <<batch_pc, wait_time, batch_log, collected, batch_result>>
    /\ BatchArgsUnchanged
    /\ UNCHANGED notBatchVars

\* The for loop is over: return df_list.
CpdReturn ==
    /\ batch_fn = "collect_players_data"
    /\ batch_pc = "loop"
    /\ batch_idx > Len(batch_items)
    /\ batch_pc' = "returned"
    /\ batch_result' = "list"
    /\ UNCHANGED <<wait_time, batch_idx, retries, batch_log, collected>>
    /\ BatchArgsUnchanged
    /\ UNCHANGED notBatchVars

collect_players_data ==
    \/ CpdStart
    \/ CpdSkipRow
    \/ CpdFetchOk
    \/ CpdFetchRateLimited
    \/ CpdFetchFailed
    \/ CpdRowExhausted
    \/ CpdReturn

\* ---- collect_team_players, with get_url_list inlined ----

\* Lines 156-162: the call-rate guard, wait_time, then teams.csv is read.
CtpStart ==
    /\ batch_fn = "collect_team_players"
    /\ batch_pc = "start"
    /\ IF CallRateTooHigh(call_rate)
          THEN /\ BatchRaise("FBRefRateLimitError")
               /\ UNCHANGED <<wait_time, batch_idx, batch_log>>
          ELSE /\ wait_time' = PacingDelay(call_rate)
               /\ batch_log' = Append(batch_log, ReadEvent)
               /\ batch_idx' = 1
               /\ batch_pc' = "loop"
               /\ UNCHANGED batch_result
    /\ UNCHANGED <<retries, collected>>
    /\ BatchArgsUnchanged
    /\ UNCHANGED notBatchVars

CtpTrying ==
    /\ BatchInLoop("collect_team_players")
    /\ retries < batch_retries

\* get_url_list returns the page's links: extend, time.sleep(wait_time).
CtpPageOk ==
    /\ CtpTrying
    /\ batch_log' = batch_log \o <<GetEvent(batch_idx, "ok"),
                                   ExtendEvent(batch_idx, PlayerUrls),
                                   SleepEvent(batch_idx, wait_time)>>
    /\ collected' = Append(collected, batch_idx)
    /\ batch_idx' = batch_idx + 1
    /\ retries' = 0
    /\ UNCHANGED <<batch_pc, wait_time, batch_result>>
    /\ BatchArgsUnchanged
    /\ UNCHANGED notBatchVars

\* get_url_list gets a 429: it sleeps Retry-After (default 10) seconds, its
\* own wait_time, counts a retry and asks again.
CtpPageRateLimited ==
    /\ CtpTrying
    /\ \E h \in FbrefRetryAfter :
        batch_log' = batch_log \o
            <<GetEvent(batch_idx, "429"),
              SleepEvent(batch_idx, Seconds(HeaderOr(h, DefaultRetryAfter)))>>
    /\ retries' = retries + 1
    /\ UNCHANGED <<batch_pc, wait_time, batch_idx, collected, batch_result>>
    /\ BatchArgsUnchanged
    /\ UNCHANGED notBatchVars

\* get_url_list raises (HTTPError of another status, TeamDataError):
\* collect_team_players re-raises it as Exception.
CtpPageFailed ==
    /\ CtpTrying
    /\ batch_log' = Append(batch_log, GetEvent(batch_idx, "error"))
    /\ BatchRaise("Exception")
    /\ UNCHANGED <<wait_time, batch_idx, retries, collected>>
    /\ BatchArgsUnchanged
    /\ UNCHANGED notBatchVars

\* get_url_list's while loop ends after max_retries 429s: it returns None,
\* player_urls.extend(None) raises TypeError, re-raised as Exception.
CtpRetriesExhausted ==
    /\ BatchInLoop("collect_team_players")
    /\ retries >= batch_retries
    /\ batch_log' = Append(batch_log, ExtendEvent(batch_idx, UrlListExhausted))
    /\ BatchRaise("Exception")
    /\ UNCHANGED <<wait_time, batch_idx, retries, collected>>
    /\ BatchArgsUnchanged
    /\ UNCHANGED notBatchVars

\* The for loop is over: get_ids(player_urls), which raises ValueError on an
\* empty list (re-raised as Exception), else the ids are returned.
CtpReturn ==
    /\ batch_fn = "collect_team_players"
    /\ batch_pc = "loop"
    /\ batch_idx > Len(batch_items)
    /\ IF collected = <<>>
          THEN BatchRaise("Exception")
          ELSE batch_pc' = "returned" /\ batch_result' = "list"
    /\ UNCHANGED <<wait_time, batch_idx, retries, batch_log, collected>>
    /\ BatchArgsUnchanged
    /\ UNCHANGED notBatchVars

collect_team_players ==
    \/ CtpStart
    \/ CtpPageOk
    \/ CtpPageRateLimited
    \/ CtpPageFailed
    \/ CtpRetriesExhausted
    \/ CtpReturn

\* ---- global_scraper: the per-player loop (lines 127-139) ----

\* One step of the loop is the whole try block for a player: the fetch by
\* get_individual_data and the two parsers that write the history files.

\* `print("Processing Players...")`: the loop over player_ids begins.
GsPlayersStart ==
    /\ batch_fn = "global_scraper"
    /\ batch_pc = "start"
    /\ batch_pc' = "loop"
    /\ batch_idx' = 1
    /\ UNCHANGED <<wait_time, retries, batch_log, collected, batch_result>>
    /\ BatchArgsUnchanged
    /\ UNCHANGED notBatchVars

\* The player's data is fetched and both history files are written.
GsPlayerOk ==
    /\ BatchInLoop("global_scraper")
    /\ batch_log' = Append(batch_log, GetEvent(batch_idx, "ok"))
    /\ collected' = Append(collected, batch_idx)
    /\ batch_idx' = batch_idx + 1
    /\ UNCHANGED <<batch_pc, wait_time, retries, batch_result>>
    /\ BatchArgsUnchanged
    /\ UNCHANGED notBatchVars

\* Anything raised for the player: `except Exception` prints a warning and
\* continues with the next player.
GsPlayerFailed ==
    /\ BatchInLoop("global_scraper")
    /\ batch_log' = Append(batch_log, GetEvent(batch_idx, "error"))
    /\ batch_idx' = batch_idx + 1
    /\ batch_pc' = AfterPlayerError
    /\ UNCHANGED <<wait_time, retries, collected, batch_result>>
    /\ BatchArgsUnchanged
    /\ UNCHANGED notBatchVars

\* The loop is over: "DONE" is printed and global_scraper goes on.
GsPlayersDone ==
    /\ batch_fn = "global_scraper"
    /\ batch_pc = "loop"
    /\ batch_idx > Len(batch_items)
    /\ batch_pc' = "returned"
    /\ batch_result' = "list"
    /\ UNCHANGED <<wait_time, batch_idx, retries, batch_log, collected>>
    /\ BatchArgsUnchanged
    /\ UNCHANGED notBatchVars

global_scraper_players ==
    \/ GsPlayersStart
    \/ GsPlayerOk
    \/ GsPlayerFailed
    \/ GsPlayersDone

BatchNext ==
    \/ collect_players_data
    \/ collect_team_players
    \/ global_scraper_players

(***************************************************************************)
(* fuzzy_match and the scorers                                             *)
(***************************************************************************)

\* `threshold = 95` of perform_fuzzy_matching_and_sifting.
Threshold == 95

\* The highest score of the scorer, and of a valid threshold.
MaxScore == 100

\* `0 <= threshold <= 100`
ValidThreshold(t) == 0 <= t /\ t <= MaxScore

\* The scorer found nothing to score (process.extractOne returns None).
NoneTop == [match |-> NaN, score |-> -1]

\* `score >= threshold` written as `score > threshold`.
AcceptedStrictly(score, threshold) == score > threshold

\* `score >= threshold`
Accepted(score, threshold) == score >= threshold

FuzzyMatchError == <<"FuzzyMatchError">>

\* fuzzy_match(name, choices, threshold, scorer), given what the scorer
\* answers: the match, NaN, or FuzzyMatchError for anything raised inside.
fuzzy_match(top, threshold) ==
    IF ~ValidThreshold(threshold) \/ top = NoneTop
       THEN FuzzyMatchError
       ELSE IF Accepted(top.score, threshold) THEN top.match ELSE NaN

\* The scorer's score of choice c for query q under the answers tab: equal
\* strings score 100, every other pair what the scorer answered.
ScoreOf(q, c, tab) == IF q = c THEN MaxScore ELSE tab[<<q, c>>]

\* process.extractOne(q, choices): the best-scoring choice, the first of
\* them on a tie; None for no choices.
extractOne(q, choices, tab) ==
    IF choices = <<>> THEN NoneTop
    ELSE LET best == CHOOSE i \in 1..Len(choices) :
                        \A j \in 1..Len(choices) :
                            \/ ScoreOf(q, choices[j], tab)
                                 < ScoreOf(q, choices[i], tab)
                            \/ /\ ScoreOf(q, choices[j], tab)
                                    = ScoreOf(q, choices[i], tab)
                               /\ i <= j
         IN [match |-> choices[best],
             score |-> ScoreOf(q, choices[best], tab)]

\* Thresholds a direct call of fuzzy_match is explored with.
ThresholdsExplored == -1..(MaxScore + 1)

\* Names the scorer may answer in a direct call.
TopMatches == {<<"Ben", "Davies">>, <<"Benjamin", "Davies">>}

FuzzyIdle ==
    /\ fz_pc = "idle"
    /\ fz_threshold = 0
    /\ fz_top = NoneTop
    /\ fz_result = NaN

FuzzyInit ==
    /\ fz_pc = "call"
    /\ fz_threshold \in ThresholdsExplored
    /\ fz_top \in {NoneTop} \cup [match : TopMatches, score : 0..MaxScore]
    /\ fz_result = NaN

\* The call returns a match or NaN.
FuzzyReturn ==
    /\ fz_pc = "call"
    /\ fuzzy_match(fz_top, fz_threshold) # FuzzyMatchError
    /\ fz_result' = fuzzy_match(fz_top, fz_threshold)
    /\ fz_pc' = "returned"
    /\ UNCHANGED <<fz_threshold, fz_top>>
    /\ UNCHANGED notFuzzyVars

\* The call raises FuzzyMatchError.
FuzzyRaise ==
    /\ fz_pc = "call"
    /\ fuzzy_match(fz_top, fz_threshold) = FuzzyMatchError
    /\ fz_result' = FuzzyMatchError
    /\ fz_pc' = "raised"
    /\ UNCHANGED <<fz_threshold, fz_top>>
    /\ UNCHANGED notFuzzyVars

FuzzyNext == FuzzyReturn \/ FuzzyRaise

(***************************************************************************)
(* merge_fpl_fbref_ids: the reconciler                                     *)
(***************************************************************************)

\* Largest number of rows of player_idlist.csv explored.
MaxFpl == 2

\* Largest number of rows of fbref_ids.csv explored.
MaxFbref == 2

\* Largest number of rows of last season's player_compiled_ids.csv explored.
MaxPrev == 2

\* (first_name, second_name) of the FPL players explored.  Both abbreviate
\* to "Ben Davies"; only the first can equal an FBRef name split at its
\* first space.
FplNames ==
    {[first_name |-> <<"Ben">>, second_name |-> <<"Davies">>],
     [first_name |-> <<"Ben", "Lée">>, second_name |-> <<"Davies">>]}

\* Names and ids of the FBRef roster explored.
FbrefNames == {<<"Ben", "Davies">>, <<"Benjamin", "Davies">>}
FbrefIdValues == {<<"x">>, <<"y">>}

\* id_fbref values of last season's table: unset, or an id.
PrevIdValues == {NaN, <<"p">>}

\* Scores the scorer is explored to answer for two different strings.
ScoreValues == {Threshold - 1, Threshold}

\* read_csv of last season's table raises FileNotFoundError.
NoFile == [exists |-> FALSE, rows |-> <<>>]

Range(f) == {f[i] : i \in DOMAIN f}

RECURSIVE Flatten(_)
Flatten(ss) == IF ss = <<>> THEN <<>> ELSE Head(ss) \o Flatten(Tail(ss))

\* The sequences over S of length lo..hi
SeqsBetween(S, lo, hi) == UNION {[1..k -> S] : k \in lo..hi}

IsInjective(f) == \A i, j \in DOMAIN f : f[i] = f[j] => i = j

\* unicodedata.normalize('NFKD') without the combining marks, per token
StripToken(t) == IF t = "Lée" THEN "Lee" ELSE t

remove_special_letters(text) == [i \in DOMAIN text |-> StripToken(text[i])]

\* load_dfs: `first_name.str.split(" ").str[0] + " " +
\* second_name.str.split(" ").str[-1]`
full_name_abbr(r) == <<r.first_name[1], r.second_name[Len(r.second_name)]>>

\* load_dfs: `first_name + " " + second_name`
full_name_full(r) == r.first_name \o r.second_name

\* load_dfs: `name.str.split(' ', n=1, expand=True)`
FbrefFirstName(f) == <<f.name[1]>>
FbrefSecondName(f) == Tail(f.name)

\* fbref_ids['name'].tolist()
FbrefNameList == [i \in DOMAIN fbref_ids |-> fbref_ids[i].name]

\* What input() returns at a prompt: nothing, a number, other text, or a
\* URL, which is given by the '/'-separated segments of its path, each
\* segment by its pieces, hyphens included.
Text(kind, n, path) == [kind |-> kind, n |-> n, path |-> path]

EmptyResponse == Text("empty", 0, <<>>)

\* One call of input(): the pass it was made in and the row it asked for,
\* the number of candidates listed, the text it got, and how many answers
\* in a row have now been asked again for.
Prompt(at, row, shown, text, rejected) ==
    [at |-> at, row |-> row, shown |-> shown, text |-> text,
     rejected |-> rejected]

\* input() has not been called.
NoPrompt == Prompt("none", 0, 0, EmptyResponse, 0)

\* A run of merge_fpl_fbref_ids on its own (run 0), the first of two runs
\* on the same files (run 1: typed holds what its prompts got, in order),
\* and the second (run 2: typed holds what is still to be typed, and the
\* other fields what the first run returned).
Run(n, texts, table, missing) ==
    [run |-> n, typed |-> texts, final_matched |-> table,
     missing_players |-> missing]

NoEarlierRun == Run(0, <<>>, <<>>, <<>>)

ReconIdle ==
    /\ rc_pc = "idle"
    /\ fpl_ids = <<>>
    /\ fbref_ids = <<>>
    /\ previous_merged_ids = NoFile
    /\ scores = <<>>
    /\ merged = <<>>
    /\ matched = <<>>
    /\ unmatched = <<>>
    /\ cursor = 0
    /\ presented = <<>>
    /\ final_matched = <<>>
    /\ missing_players = <<>>
    /\ saved = {}
    /\ typed = NoPrompt
    /\ earlier = NoEarlierRun

\* player_idlist.csv as explored: the rows carry the ids 1..n in order.
FplRoster(names) ==
    [i \in DOMAIN names |->
       [id |-> i, first_name |-> names[i].first_name,
        second_name |-> names[i].second_name]]

FplRosters == {FplRoster(names) : names \in SeqsBetween(FplNames, 1, MaxFpl)}

\* fbref_ids.csv as explored: distinct (name, id) pairs, as get_ids leaves
\* them.
FbrefRosters ==
    {f \in SeqsBetween([name : FbrefNames, id : FbrefIdValues], 1, MaxFbref) :
        IsInjective(f)}

\* Last season's player_compiled_ids.csv as explored, or no such file.
PreviousTables ==
    {NoFile} \cup
    [exists : {TRUE},
     rows : SeqsBetween(
              [first_name_fpl : {n.first_name : n \in FplNames},
               second_name_fpl : {n.second_name : n \in FplNames},
               id_fbref : PrevIdValues], 0, MaxPrev)]

\* merge_fpl_fbref_ids is called: the three files are among those given,
\* and the run is on its own or the first of two.
ReconStart(fpl, fbref, previous, run) ==
    /\ rc_pc = "start"
    /\ fpl_ids \in fpl
    /\ fbref_ids \in fbref
    /\ previous_merged_ids \in previous
    /\ scores = <<>>
    /\ merged = <<>>
    /\ matched = <<>>
    /\ unmatched = <<>>
    /\ cursor = 0
    /\ presented = <<>>
    /\ final_matched = <<>>
    /\ missing_players = <<>>
    /\ saved = {}
    /\ typed = NoPrompt
    /\ earlier = run

ReconInit == ReconStart(FplRosters, FbrefRosters, PreviousTables, NoEarlierRun)

\* The tables of at most one row: with them a player has one row in merged.
RerunTables == {t \in PreviousTables : Len(t.rows) <= 1}

\* The first of two runs begins: one player with any of the FBRef rosters
\* and tables, or several players with one FBRef row and no table.
RerunInit ==
    /\ ReconStart(FplRosters, FbrefRosters, RerunTables,
                  Run(1, <<>>, <<>>, <<>>))
    /\ \/ Len(fpl_ids) = 1
       \/ Len(fbref_ids) = 1 /\ previous_merged_ids = NoFile

\* Largest number of FBRef rows of one surname explored.
MaxCandidates == 6

\* First names of the FBRef players called Davies explored.
DaviesFirstNames ==
    <<"Tom", "Alun", "Curtis", "Kevin", "Simon", "Steven", "Mark", "Andrew">>

\* fbref_ids.csv with up to MaxCandidates players called Davies, no Ben
\* among them.
DaviesRosters ==
    {[i \in 1..k |-> [name |-> <<DaviesFirstNames[i], "Davies">>,
                      id |-> <<ToString(i)>>]] : k \in 1..MaxCandidates}

\* (first_name, second_name) of the FPL players sifted against them: one
\* who is and one who is not in the FBRef roster under his FPL names.
DaviesFplNames ==
    {[first_name |-> <<"Ben">>, second_name |-> <<"Davies">>],
     [first_name |-> <<"Tom">>, second_name |-> <<"Davies">>]}

\* merge_fpl_fbref_ids is called on rosters that leave sift_names up to
\* MaxCandidates names to list.
SiftInit ==
    ReconStart({FplRoster(names) : names \in SeqsBetween(DaviesFplNames, 1, 2)},
               DaviesRosters, RerunTables, NoEarlierRun)

ReconFilesUnchanged == UNCHANGED <<fpl_ids, fbref_ids, previous_merged_ids>>

\* The three files stay as they are, and input() is not called.
ReconInputsUnchanged ==
    /\ ReconFilesUnchanged
    /\ UNCHANGED earlier

\* pd.merge(fpl_ids, fbref_ids, "left", on=["first_name", "second_name"]):
\* the rows of one FPL player, one per FBRef row of the same names, in FBRef
\* order; a single row with name and id_fbref unset when there is none.
ExactJoinRows(p) ==
    LET hits == SelectSeq(fbref_ids,
                    LAMBDA f : /\ FbrefFirstName(f) = p.first_name
                               /\ FbrefSecondName(f) = p.second_name)
        row(name, id) == [first_name |-> p.first_name,
                          second_name |-> p.second_name,
                          id_fpl |-> p.id, name |-> name, id_fbref |-> id]
    IN IF hits = <<>> THEN <<row(NaN, NaN)>>
       ELSE [i \in DOMAIN hits |-> row(hits[i].name, hits[i].id)]

\* Lines 149-160: load_dfs, then the exact join.
ExactJoin ==
    /\ rc_pc = "start"
    /\ merged' = Flatten([i \in DOMAIN fpl_ids |-> ExactJoinRows(fpl_ids[i])])
    /\ rc_pc' = "carry_forward"
    /\ UNCHANGED <<scores, matched, unmatched, cursor, presented,
                   final_matched, missing_players, saved>>
    /\ UNCHANGED typed
    /\ ReconInputsUnchanged
    /\ UNCHANGED notReconVars

\* Series.combine_first with the arguments exchanged.
CombineFirstSwapped(a, b) == IF isna(b) THEN a ELSE b

\* Series.combine_first: a, and b where a is missing.
combine_first(a, b) == IF isna(a) THEN b ELSE a

\* The current season's own player_compiled_ids.csv, as an earlier run of
\* merge_fpl_fbref_ids left it.
OwnSeasonTable ==
    [exists |-> earlier.run = 2, rows |-> earlier.final_matched]

\* Lines 163-164: the table read is player_compiled_ids.csv of the season
\* get_previous_season names, never the one this run writes.
PreviousSeasonTable == previous_merged_ids

\* The rows of merged_with_prev for one row of merged: one per row of last
\* season's table with the same names, id_fbref filled from it when unset.
CarryForwardRows(r) ==
    LET hits == SelectSeq(PreviousSeasonTable.rows,
                    LAMBDA q : /\ q.first_name_fpl = r.first_name
                               /\ q.second_name_fpl = r.second_name)
    IN IF hits = <<>> THEN <<r>>
       ELSE [i \in DOMAIN hits |->
               [r EXCEPT !.id_fbref = combine_first(@, hits[i].id_fbref)]]

\* Lines 162-180: last season's table is there.
CarryForward ==
    /\ rc_pc = "carry_forward"
    /\ PreviousSeasonTable.exists
    /\ merged' = Flatten([i \in DOMAIN merged |-> CarryForwardRows(merged[i])])
    /\ rc_pc' = "fuzzy"
    /\ UNCHANGED <<scores, matched, unmatched, cursor, presented,
                   final_matched, missing_players, saved>>
    /\ UNCHANGED typed
    /\ ReconInputsUnchanged
    /\ UNCHANGED notReconVars

\* Lines 182-183: read_csv raises FileNotFoundError; warn and go on.
CarryForwardNoFile ==
    /\ rc_pc = "carry_forward"
    /\ ~PreviousSeasonTable.exists
    /\ rc_pc' = "fuzzy"
    /\ UNCHANGED <<scores, merged, matched, unmatched, cursor, presented,
                   final_matched, missing_players, saved>>
    /\ UNCHANGED typed
    /\ ReconInputsUnchanged
    /\ UNCHANGED notReconVars

\* The scorer's answers tab extended to the pairs it is now asked about.
Answers(tab, pairs) ==
    {t \in [DOMAIN tab \cup pairs -> ScoreValues] :
        \A q \in DOMAIN tab : t[q] = tab[q]}

\* Two different strings of which the first is scored against the second.
ScoredPairs(queries, choices) ==
    {<<q, c>> : q \in queries, c \in choices} \ {<<c, c>> : c \in choices}

\* map_name_match for one row: the id of the first FBRef row of that name.
FirstIdOf(name) ==
    LET ids == SelectSeq(fbref_ids, LAMBDA f : f.name = name)
    IN IF ids = <<>> THEN NaN ELSE ids[1].id

\* Lines 120-123 for one row of unmatched: fuzzy_match on the abbreviated
\* name, then map_name_match.
FuzzyRow(r, tab) ==
    LET m == fuzzy_match(extractOne(full_name_abbr(r), FbrefNameList, tab),
                         Threshold)
    IN [first_name |-> r.first_name, second_name |-> r.second_name,
        id_fpl |-> r.id_fpl, name |-> r.name,
        id_fbref |-> IF isna(m) \/ isna(FirstIdOf(m)) THEN r.id_fbref
                     ELSE FirstIdOf(m),
        fuzzy_match |-> m]

\* Lines 185-193 and 115-123: the split into matched and unmatched, then
\* fuzzy_match and map_name_match over unmatched.
FuzzyMatching ==
    /\ rc_pc = "fuzzy"
    /\ matched' = SelectSeq(merged, LAMBDA r : ~isna(r.id_fbref))
    /\ LET um == SelectSeq(merged, LAMBDA r : isna(r.id_fbref))
       IN \E tab \in Answers(scores,
                      ScoredPairs({full_name_abbr(r) : r \in Range(um)},
                                  Range(FbrefNameList))) :
            /\ scores' = tab
            /\ unmatched' = [i \in DOMAIN um |-> FuzzyRow(um[i], tab)]
    /\ cursor' = 0
    /\ rc_pc' = "sift_strict_last"
    /\ UNCHANGED <<merged, presented, final_matched, missing_players, saved>>
    /\ UNCHANGED typed
    /\ ReconInputsUnchanged
    /\ UNCHANGED notReconVars

\* The elements of s at the positions in keep, in order.
SubSeqAt(s, keep) ==
    LET nth(k) == CHOOSE i \in keep : Cardinality({j \in keep : j < i}) = k - 1
    IN [k \in 1..Cardinality(keep) |-> s[nth(k)]]

\* Pairs <<token, part>> of the tokens explored where part is a proper
\* initial part of token, which is the only way one is inside another.
ProperPrefixes == {<<"Benjamin", "Ben">>}

\* Series.str.contains(pat, case=False) for a string and a pattern of the
\* names explored: the pattern's tokens are consecutive tokens of the
\* string, the last of them possibly only begun.
Contains(text, pat) ==
    \E k \in 0..(Len(text) - Len(pat)) :
        \A i \in 1..Len(pat) :
            \/ text[k + i] = pat[i]
            \/ i = Len(pat) /\ <<text[k + i], pat[i]>> \in ProperPrefixes

\* The default `limit` of process.extract.
ExtractLimit == 5

\* process.extract(q, choices) followed by sorted(..., reverse=True): the
\* choices by falling score, equal scores in list order, at most limit.
extract(q, choices, tab) ==
    LET before(i, j) ==
            \/ ScoreOf(q, choices[i], tab) > ScoreOf(q, choices[j], tab)
            \/ /\ ScoreOf(q, choices[i], tab) = ScoreOf(q, choices[j], tab)
               /\ i < j
        rank(i) == Cardinality({j \in DOMAIN choices : before(j, i)})
        n == IF Len(choices) < ExtractLimit THEN Len(choices) ELSE ExtractLimit
    IN [k \in 1..n |-> choices[CHOOSE i \in DOMAIN choices : rank(i) = k - 1]]

SiftPasses == {"sift_strict_last", "sift_loose_first"}

\* The arguments level and name of the two sift_names calls.
SiftLevel == IF rc_pc = "sift_strict_last" THEN "strict" ELSE "loose"
SiftName == IF rc_pc = "sift_strict_last" THEN "last" ELSE "first"

\* Rows of missing_df the loop has not reached yet.
SiftRowsLeft == {i \in DOMAIN unmatched :
                    i > cursor /\ isna(unmatched[i].fuzzy_match)}

\* The row the loop of sift_names handles next.
SiftRow == CHOOSE i \in SiftRowsLeft : \A j \in SiftRowsLeft : i <= j

\* Lines 317-320: the text the FBRef names are filtered by.
filter_name(r) ==
    IF SiftName = "first"
       THEN remove_special_letters(r.first_name)
       ELSE remove_special_letters(<<r.second_name[Len(r.second_name)]>>)

\* Lines 323-326: the FBRef names containing the filter text that no row of
\* df has as its fuzzy_match.
need_matching_names(r) ==
    LET found_names == {unmatched[i].fuzzy_match : i \in
                          {j \in DOMAIN unmatched :
                              ~isna(unmatched[j].fuzzy_match)}}
    IN SelectSeq(FbrefNameList,
                 LAMBDA n : Contains(n, filter_name(r)) /\ n \notin found_names)

\* The string sorted_fuzzy_match scores the candidates against.
SiftQuery(r) == IF SiftName = "first" THEN r.first_name ELSE r.second_name

\* Lines 330-334: related_names under the scorer's answers tab.
related_names(r, tab) ==
    IF SiftLevel = "strict"
       THEN extract(SiftQuery(r), need_matching_names(r), tab)
       ELSE need_matching_names(r)

\* The answers the scorer gives when related_names is computed for row r.
SiftAnswers(r) ==
    IF SiftLevel = "strict"
       THEN Answers(scores, ScoredPairs({SiftQuery(r)},
                                        Range(need_matching_names(r))))
       ELSE {scores}

\* The answers to a list of n candidates explored.
SiftTexts(n) ==
    {EmptyResponse, Text("text", 0, <<>>)}
    \cup {Text("number", k, <<>>) : k \in 0..(n + 1)}

\* The texts the next prompt is answered with: any of those explored, or,
\* in the second of two runs, what the first run got at the prompt of the
\* same number.
Answering(texts) ==
    IF earlier.run = 2 /\ earlier.typed # <<>>
       THEN {Head(earlier.typed).text}
       ELSE texts

\* The prompt is kept for the second run, or taken from what the first run
\* left.
Journal(prompt) ==
    earlier' = CASE earlier.run = 1
                      -> [earlier EXCEPT !.typed = Append(@, prompt)]
                 [] earlier.run = 2 /\ earlier.typed # <<>>
                      -> [earlier EXCEPT !.typed = Tail(@)]
                 [] OTHER -> earlier

\* Lines 348-373: what sift_names makes of an answer to n candidates.
SiftChoice(text, n) ==
    CASE text.kind = "empty" -> "none"
      [] text.kind = "number" /\ text.n = 0 -> "none"
      [] text.kind = "number" /\ text.n \in 1..n -> "select"
      [] OTHER -> "again"

\* Largest number of answers in a row, at one prompt, that sift_names asks
\* again for.
MaxInvalid == 1

SiftFrame ==
    /\ UNCHANGED <<rc_pc, merged, matched, final_matched, missing_players,
                   saved>>
    /\ ReconFilesUnchanged
    /\ UNCHANGED notReconVars

\* The candidates of the row are listed and the prompt is answered: the
\* answer is one that SiftChoice takes as `choice`.
SiftPrompt(choice) ==
    /\ rc_pc \in SiftPasses
    /\ SiftRowsLeft # {}
    /\ need_matching_names(unmatched[SiftRow]) # <<>>
    /\ \E tab \in SiftAnswers(unmatched[SiftRow]) :
        /\ scores' = tab
        /\ presented' = related_names(unmatched[SiftRow], tab)
    /\ \E text \in Answering(SiftTexts(Len(need_matching_names(
                                             unmatched[SiftRow])))) :
        /\ SiftChoice(text, Len(presented')) = choice
        /\ typed' = Prompt(rc_pc, SiftRow, Len(presented'), text,
                           IF choice = "again" THEN typed.rejected + 1 ELSE 0)
    /\ Journal(typed')

\* No FBRef name is left to propose for the row: it is passed over.
SiftNoCandidates ==
    /\ rc_pc \in SiftPasses
    /\ SiftRowsLeft # {}
    /\ need_matching_names(unmatched[SiftRow]) = <<>>
    /\ cursor' = SiftRow
    /\ UNCHANGED <<scores, unmatched, presented, typed, earlier>>
    /\ SiftFrame

\* The candidates are shown and the answer is empty or 0: no match.
SiftDecline ==
    /\ SiftPrompt("none")
    /\ cursor' = SiftRow
    /\ UNCHANGED unmatched
    /\ SiftFrame

\* The candidates are shown and the answer is a number 1..len: the row
\* gets that name as fuzzy_match and the id of its first FBRef row.
SiftSelect ==
    /\ SiftPrompt("select")
    /\ LET choice == typed'.text.n
       IN unmatched' = [unmatched EXCEPT
                           ![SiftRow].fuzzy_match = presented'[choice],
                           ![SiftRow].id_fbref = FirstIdOf(presented'[choice])]
    /\ cursor' = SiftRow
    /\ SiftFrame

\* The candidates are shown and the answer is no number, or a number that
\* is not 0..len: "Invalid" is printed and input() is called again.
SiftInvalid ==
    /\ typed.rejected < MaxInvalid
    /\ SiftPrompt("again")
    /\ UNCHANGED <<cursor, unmatched>>
    /\ SiftFrame

\* The loop of sift_names is over; the next pass, or manual_sift, begins.
SiftPassEnd ==
    /\ rc_pc \in SiftPasses
    /\ SiftRowsLeft = {}
    /\ rc_pc' = IF rc_pc = "sift_strict_last" THEN "sift_loose_first"
                ELSE "manual_sift"
    /\ cursor' = 0
    /\ UNCHANGED <<scores, merged, matched, unmatched, presented,
                   final_matched, missing_players, saved>>
    /\ UNCHANGED typed
    /\ ReconInputsUnchanged
    /\ UNCHANGED notReconVars

\* The responses to manual_sift's prompt explored: nothing, a player URL,
\* and a URL one segment short.
ManualResponses ==
    {EmptyResponse,
     Text("url", 0, << <<>>, <<"en">>, <<"players">>, <<"m">>,
                       <<"Ben", "-", "Davies">> >>),
     Text("url", 0, << <<>>, <<"en">>, <<"players">>, <<"m">> >>)}

\* The number of path segments manual_sift accepts.
UrlSegments == 5

\* str.replace("-", " "): every hyphen becomes a space, so the pieces
\* between the hyphens are the tokens of the name.
HyphensToSpaces(segment) == SelectSeq(segment, LAMBDA piece : piece # "-")

\* Lines 436-445 taking the id from the segment before the player's.
ManualRowWrongSegment(r, response) ==
    IF Len(response.path) = UrlSegments
       THEN [r EXCEPT !.id_fbref = response.path[3],
                      !.name = HyphensToSpaces(response.path[5])]
       ELSE [r EXCEPT !.id_fbref = NaN, !.name = full_name_full(r)]

\* Lines 436-445: what a non-empty response makes of the row.
ManualRow(r, response) ==
    IF Len(response.path) = UrlSegments
       THEN [r EXCEPT !.id_fbref = response.path[4],
                      !.name = HyphensToSpaces(response.path[5])]
       ELSE [r EXCEPT !.id_fbref = NaN, !.name = full_name_full(r)]

\* Rows with id_fbref unset manual_sift has not reached yet.
ManualRowsLeft == {i \in DOMAIN unmatched :
                      i > cursor /\ isna(unmatched[i].id_fbref)}

ManualNextRow == CHOOSE i \in ManualRowsLeft : \A j \in ManualRowsLeft : i <= j

\* One prompt of manual_sift and its response.
ManualAnswer ==
    /\ rc_pc = "manual_sift"
    /\ ManualRowsLeft # {}
    /\ \E response \in Answering(ManualResponses) :
        /\ unmatched' = IF response.kind = "empty" THEN unmatched
                        ELSE [unmatched EXCEPT ![ManualNextRow] =
                                ManualRow(unmatched[ManualNextRow], response)]
        /\ typed' = Prompt("manual_sift", ManualNextRow, 0, response, 0)
    /\ Journal(typed')
    /\ cursor' = ManualNextRow
    /\ UNCHANGED <<rc_pc, scores, merged, matched, presented, final_matched,
                   missing_players, saved>>
    /\ ReconFilesUnchanged
    /\ UNCHANGED notReconVars

\* manual_sift returns: nothing was unmatched, or its loop is over.
ManualEnd ==
    /\ rc_pc = "manual_sift"
    /\ ManualRowsLeft = {}
    /\ rc_pc' = "process_player_matches"
    /\ cursor' = 0
    /\ UNCHANGED <<scores, merged, matched, unmatched, presented,
                   final_matched, missing_players, saved>>
    /\ UNCHANGED typed
    /\ ReconInputsUnchanged
    /\ UNCHANGED notReconVars

\* drop_duplicates("id_fpl", keep="last")
DropDuplicateIdsKeepLast(rows) ==
    SubSeqAt(rows, {i \in DOMAIN rows :
                      \A j \in (i + 1)..Len(rows) :
                          rows[j].id_fpl # rows[i].id_fpl})

\* Line 245 left out: the concatenation as it is.
KeepDuplicateIds(rows) == rows

\* drop_duplicates("id_fpl", keep="first")
DropDuplicateIds(rows) ==
    SubSeqAt(rows, {i \in DOMAIN rows :
                      \A j \in 1..(i - 1) : rows[j].id_fpl # rows[i].id_fpl})

\* [fpl_cols] of a row
FplCols(r) == [first_name |-> r.first_name, second_name |-> r.second_name,
               id_fpl |-> r.id_fpl]

\* Lines 236-240: recovered_matches
RecoveredMatches(um) ==
    LET rec == SelectSeq(um, LAMBDA r : ~isna(r.id_fbref))
    IN [i \in DOMAIN rec |->
          [first_name |-> rec[i].first_name, second_name |-> rec[i].second_name,
           name |-> rec[i].fuzzy_match, id_fpl |-> rec[i].id_fpl,
           id_fbref |-> rec[i].id_fbref]]

\* Lines 242-245: matched with the recovered rows, one row per id_fpl.
AllMatched(um, m) == DropDuplicateIds(m \o RecoveredMatches(um))

\* Line 248: the full names of the rows whose id_fbref is unset.
MissingPlayers(um) ==
    LET miss == SelectSeq(um, LAMBDA r : isna(r.id_fbref))
    IN [i \in DOMAIN miss |-> full_name_full(miss[i])]

\* Line 250: the distinct FPL columns of both frames, sorted by id_fpl.
AllPlayers(um, m) ==
    LET players == Range([i \in DOMAIN m |-> FplCols(m[i])])
                   \cup Range([i \in DOMAIN um |-> FplCols(um[i])])
    IN [k \in 1..Cardinality(players) |->
          CHOOSE p \in players :
             Cardinality({q \in players : q.id_fpl < p.id_fpl}) = k - 1]

\* Lines 252-260: the rows of merged_df for one row of all_players.
MergedRows(p, m) ==
    LET hits == SelectSeq(m, LAMBDA r : FplCols(r) = p)
        row(name, id) == [first_name_fpl |-> p.first_name,
                          second_name_fpl |-> p.second_name,
                          id_fpl |-> p.id_fpl,
                          name_fbref |-> name, id_fbref |-> id]
    IN IF hits = <<>> THEN <<row(NaN, NaN)>>
       ELSE [i \in DOMAIN hits |-> row(hits[i].name, hits[i].id_fbref)]

\* process_player_matches(unmatched, matched): merged_df
MergedDf(um, m) ==
    LET all == AllMatched(um, m)
        players == AllPlayers(um, all)
    IN Flatten([i \in DOMAIN players |-> MergedRows(players[i], all)])

\* Line 197: process_player_matches.
ProcessPlayerMatches ==
    /\ rc_pc = "process_player_matches"
    /\ final_matched' = MergedDf(unmatched, matched)
    /\ missing_players' = MissingPlayers(unmatched)
    /\ rc_pc' = "save_data"
    /\ UNCHANGED <<scores, merged, matched, unmatched, cursor, presented,
                   saved>>
    /\ UNCHANGED typed
    /\ ReconInputsUnchanged
    /\ UNCHANGED notReconVars

\* Line 201: save_data writes the table, then the missing list.
SaveData ==
    /\ rc_pc = "save_data"
    /\ saved' = {"player_compiled_ids.csv", "missing_fbref_ids.json"}
    /\ rc_pc' = "done"
    /\ UNCHANGED <<scores, merged, matched, unmatched, cursor, presented,
                   final_matched, missing_players>>
    /\ UNCHANGED typed
    /\ ReconInputsUnchanged
    /\ UNCHANGED notReconVars

\* save_data fails: mkdir or to_csv raises with nothing written, or the
\* table is written and the open or json.dump for the missing list raises
\* (lines 202-217); DataProcessingError, re-raised at run_all.py:205-207.
SaveDataFails ==
    /\ rc_pc = "save_data"
    /\ \E written \in {{}, {"player_compiled_ids.csv"}} : saved' = written
    /\ rc_pc' = "raised"
    /\ UNCHANGED <<scores, merged, matched, unmatched, cursor, presented,
                   final_matched, missing_players>>
    /\ UNCHANGED typed
    /\ ReconInputsUnchanged
    /\ UNCHANGED notReconVars

\* load_dfs fails (a file or a column is missing): DataProcessingError
\* (merge_ids.py:181-182), re-raised at run_all.py:205-207.
LoadDfsFails ==
    /\ rc_pc = "start"
    /\ rc_pc' = "raised"
    /\ UNCHANGED <<scores, merged, matched, unmatched, cursor, presented,
                   final_matched, missing_players, saved>>
    /\ UNCHANGED typed
    /\ ReconInputsUnchanged
    /\ UNCHANGED notReconVars

\* The first of two runs has returned and merge_fpl_fbref_ids is called
\* again for the season: the three files are as they were, the scorer is
\* the same function, and the prompts will get the texts they got before.
Rerun ==
    /\ rc_pc = "done"
    /\ earlier.run = 1
    /\ earlier' = Run(2, earlier.typed, final_matched, missing_players)
    /\ rc_pc' = "start"
    /\ merged' = <<>>
    /\ matched' = <<>>
    /\ unmatched' = <<>>
    /\ cursor' = 0
    /\ presented' = <<>>
    /\ final_matched' = <<>>
    /\ missing_players' = <<>>
    /\ saved' = {}
    /\ typed' = NoPrompt
    /\ UNCHANGED scores
    /\ ReconFilesUnchanged
    /\ UNCHANGED notReconVars

ReconNext ==
    \/ LoadDfsFails
    \/ SaveDataFails
    \/ ExactJoin
    \/ CarryForward
    \/ CarryForwardNoFile
    \/ FuzzyMatching
    \/ SiftNoCandidates
    \/ SiftDecline
    \/ SiftSelect
    \/ SiftInvalid
    \/ SiftPassEnd
    \/ ManualAnswer
    \/ ManualEnd
    \/ ProcessPlayerMatches
    \/ SaveData

(***************************************************************************)
(* merge_all_gameweeks and merge_gameweek                                  *)
(***************************************************************************)

\* Largest gameweek number explored.
MaxGw == 3

\* Largest number of rows of a gameweek file explored.
MaxGwRows == 1

\* Row contents explored for the gameweek files.
RowValues == {"r", "s"}

\* A gameweek file: not there, there with no content at all, or a CSV with
\* a header line and rows.
MissingGw == [kind |-> "missing", rows |-> <<>>]
EmptyGw == [kind |-> "empty", rows |-> <<>>]
CsvGw(rows) == [kind |-> "csv", rows |-> rows]

GwFiles == {MissingGw, EmptyGw} \cup {CsvGw(r) : r \in SeqsUpTo(RowValues, MaxGwRows)}

\* Lines of merged_gw.csv: the header line, and a row with its GW column.
HeaderLine == [GW |-> 0, data |-> "header"]
TaggedRow(row, n) == [GW |-> n, data |-> row]

\* merged_gw.csv absent, and as an earlier run left it.
AbsentFile == [exists |-> FALSE, lines |-> <<>>]
EarlierMerged == [exists |-> TRUE, lines |-> <<HeaderLine, TaggedRow("old", 1)>>]

\* os.remove(output_path) not done.
RemoveSkipped(f) == f

\* Lines 255-256: `if os.path.exists(output_path): os.remove(output_path)`.
Remove(f) == AbsentFile

\* Line 214: `not os.path.exists(output_path) or os.path.getsize(...) == 0`.
write_header(f) == ~f.exists \/ f.lines = <<>>

\* Lines 209-222 of merge_gameweek: the rows tagged with the gameweek are
\* appended, after a header when write_header.
AppendGameweek(f, rows, n) ==
    [exists |-> TRUE,
     lines |-> f.lines \o (IF write_header(f) THEN <<HeaderLine>> ELSE <<>>)
                       \o [i \in DOMAIN rows |-> TaggedRow(rows[i], n)]]

MergeIdle ==
    /\ mg_pc = "idle"
    /\ start_gw = 0
    /\ end_gw = 0
    /\ gw_files = <<>>
    /\ merged_file = AbsentFile
    /\ gw = 0
    /\ errors = <<>>

MergeInit ==
    /\ mg_pc = "start"
    /\ start_gw \in 1..MaxGw
    /\ end_gw \in start_gw..MaxGw
    /\ gw_files \in [1..MaxGw -> GwFiles]
    /\ merged_file \in {AbsentFile, EarlierMerged}
    /\ gw = 0
    /\ errors = <<>>

MergeArgsUnchanged == UNCHANGED <<start_gw, end_gw, gw_files>>

\* Lines 253-260: an existing merged file is deleted, the loop begins.
MagStart ==
    /\ mg_pc = "start"
    /\ merged_file' = IF merged_file.exists THEN Remove(merged_file)
                      ELSE merged_file
    /\ errors' = <<>>
    /\ gw' = start_gw
    /\ mg_pc' = "loop"
    /\ MergeArgsUnchanged
    /\ UNCHANGED notMergeVars

MagInLoop == mg_pc = "loop" /\ gw <= end_gw

\* merge_gameweek(gw, ...) reads the file and appends its rows.
MagMerged ==
    /\ MagInLoop
    /\ gw_files[gw].kind = "csv"
    /\ merged_file' = AppendGameweek(merged_file, gw_files[gw].rows, gw)
    /\ gw' = gw + 1
    /\ UNCHANGED <<mg_pc, errors>>
    /\ MergeArgsUnchanged
    /\ UNCHANGED notMergeVars

\* open() raises FileNotFoundError, re-raised by merge_gameweek and caught
\* at line 264: the gameweek is noted in errors and the loop continues.
MagFileNotFound ==
    /\ MagInLoop
    /\ gw_files[gw].kind = "missing"
    /\ errors' = Append(errors, gw)
    /\ gw' = gw + 1
    /\ UNCHANGED <<mg_pc, merged_file>>
    /\ MergeArgsUnchanged
    /\ UNCHANGED notMergeVars

\* The file has no field names: GameweekMergeError (line 205), caught at
\* line 264 in the same way.
MagNoFields ==
    /\ MagInLoop
    /\ gw_files[gw].kind = "empty"
    /\ errors' = Append(errors, gw)
    /\ gw' = gw + 1
    /\ UNCHANGED <<mg_pc, merged_file>>
    /\ MergeArgsUnchanged
    /\ UNCHANGED notMergeVars

\* Lines 268-271: `if errors: raise GameweekMergeError(...)`.
MagReport ==
    /\ mg_pc = "loop"
    /\ gw > end_gw
    /\ mg_pc' = IF errors # <<>> THEN "raised" ELSE "returned"
    /\ UNCHANGED <<merged_file, gw, errors>>
    /\ MergeArgsUnchanged
    /\ UNCHANGED notMergeVars

merge_all_gameweeks ==
    \/ MagStart
    \/ MagMerged
    \/ MagFileNotFound
    \/ MagNoFields
    \/ MagReport

(***************************************************************************)
(* The runners: run_all_seasons, collect_all_seasons_idx, run_all and the  *)
(* stages they call, global_scraper among them                             *)
(***************************************************************************)

\* Largest number of seasons passed to a runner explored.
MaxSeasons == 2

\* A season argument: a string that fails `^\d{4}-\d{2}$`, CURRENT_SEASON, or
\* another season of the right form.
SeasonKinds == {"invalid", "current", "past"}

\* `re.match(r'^\d{4}-\d{2}$', season)`
MatchesSeasonFormat(s) == s # "invalid"

EntryPoints ==
    {"global_scraper", "run_all", "collect_all_seasons_idx", "run_all_seasons"}

\* A call still ahead: the function, the season it is for (0: the list), its
\* collect_idx argument, and the function whose try block it runs in.
Call(op, i, idx, within) == [op |-> op, season |-> i, idx |-> idx, within |-> within]

\* A stage that did I/O for a season, and whether it got through.
StageEvent(op, i, ok) == [op |-> op, season |-> i, ok |-> ok]

\* Lines 279-285: pull_and_collect_fpl_data.
pull_and_collect_fpl_data(i, within) ==
    IF seasons[i] = "current"
       THEN <<Call("global_scraper", i, FALSE, within)>>
       ELSE <<Call("fpl_data_past_season", i, FALSE, within),
              Call("clean_players", i, FALSE, within)>>

\* Lines 287-294: pull_and_collect_fbref_data.
pull_and_collect_fbref_data(i, idx, within) ==
    (IF idx THEN <<Call("collect_fbref_ids", i, FALSE, within),
                   Call("merge_fpl_fbref_ids", i, FALSE, within)>>
     ELSE <<>>)
    \o <<Call("collect_fbref_data", i, FALSE, within)>>

PipeIdle ==
    /\ pl_pc = "idle"
    /\ pl_fn = "none"
    /\ seasons = <<>>
    /\ collect_idx = FALSE
    /\ pl_todo = <<>>
    /\ pl_log = <<>>
    /\ pl_error = "none"

PipeInit ==
    /\ pl_pc = "running"
    /\ pl_fn \in EntryPoints
    /\ seasons \in IF pl_fn \in {"global_scraper", "run_all"}
                     THEN [1..1 -> SeasonKinds]
                     ELSE SeqsUpTo(SeasonKinds, MaxSeasons)
    /\ collect_idx \in IF pl_fn \in {"run_all", "run_all_seasons"}
                         THEN BOOLEAN ELSE {FALSE}
    /\ pl_todo = <<Call(pl_fn,
                        IF pl_fn \in {"global_scraper", "run_all"} THEN 1 ELSE 0,
                        collect_idx, "caller")>>
    /\ pl_log = <<>>
    /\ pl_error = "none"

PipeArgsUnchanged == UNCHANGED <<pl_fn, seasons, collect_idx>>

PlNext(op) ==
    /\ pl_pc = "running"
    /\ pl_todo # <<>>
    /\ Head(pl_todo).op = op

\* The call at the head is over, or expands into calls of its own.
PlGoOn(calls) ==
    /\ pl_todo' = calls \o Tail(pl_todo)
    /\ UNCHANGED <<pl_pc, pl_error>>

\* The call at the head raises e.  Inside collect_all_seasons_idx's try
\* block the exception is logged and that function returns (lines 388-389);
\* run_all (357-359) and run_all_seasons (416-418) re-raise it.
PlRaise(e) ==
    IF Head(pl_todo).within = "collect_all_seasons_idx"
       THEN /\ pl_todo' = SelectSeq(Tail(pl_todo),
                             LAMBDA c : c.within # "collect_all_seasons_idx")
            /\ UNCHANGED <<pl_pc, pl_error>>
       ELSE /\ pl_pc' = "raised"
            /\ pl_error' = e
            /\ UNCHANGED pl_todo

\* A ValueError of an argument check, which sits before the function's try.
PlReject ==
    /\ pl_pc' = "raised"
    /\ pl_error' = "ValueError"
    /\ UNCHANGED <<pl_todo, pl_log>>

\* A stage runs: it gets through, or fails and raises.
PlStageRaising(op) ==
    /\ \E ok \in BOOLEAN :
        /\ pl_log' = Append(pl_log, StageEvent(op, Head(pl_todo).season, ok))
        /\ IF ok THEN PlGoOn(<<>>) ELSE PlRaise("Exception")
    /\ PipeArgsUnchanged
    /\ UNCHANGED notPipeVars

\* A stage runs whose `except Exception` only logs (run_all.py:248-249,
\* 276-277): it returns normally whether or not it got through.
PlStageSwallowing(op) ==
    /\ \E ok \in BOOLEAN :
        pl_log' = Append(pl_log, StageEvent(op, Head(pl_todo).season, ok))
    /\ PlGoOn(<<>>)
    /\ PipeArgsUnchanged
    /\ UNCHANGED notPipeVars

\* run_all_seasons, lines 394-414: the list elements are only checked to be
\* strings; then collect_all_seasons_idx if collect_idx, then run_all with
\* collect_idx False for each season.
PlRunAllSeasons ==
    /\ PlNext("run_all_seasons")
    /\ PlGoOn((IF collect_idx
                 THEN <<Call("collect_all_seasons_idx", 0, FALSE, "run_all_seasons")>>
                 ELSE <<>>)
              \o [i \in DOMAIN seasons |->
                    Call("run_all", i, FALSE, "run_all_seasons")])
    /\ UNCHANGED pl_log
    /\ PipeArgsUnchanged
    /\ UNCHANGED notPipeVars

\* collect_all_seasons_idx, lines 366-386: every season is checked against
\* the format; then, in its try block, the FPL data and FBRef ids of every
\* season, then the merge of every season.
PlCollectAllSeasonsIdx ==
    /\ PlNext("collect_all_seasons_idx")
    /\ IF \E i \in DOMAIN seasons : ~MatchesSeasonFormat(seasons[i])
          THEN PlReject
          ELSE /\ PlGoOn(
                    Flatten([i \in DOMAIN seasons |->
                        pull_and_collect_fpl_data(i, "collect_all_seasons_idx")
                        \o <<Call("collect_fbref_ids", i, FALSE,
                                  "collect_all_seasons_idx")>>])
                    \o [i \in DOMAIN seasons |->
                          Call("merge_fpl_fbref_ids", i, FALSE,
                               "collect_all_seasons_idx")])
               /\ UNCHANGED pl_log
    /\ PipeArgsUnchanged
    /\ UNCHANGED notPipeVars

\* run_all, lines 338-353: the season is checked against the format; then
\* the FPL data, the FBRef data and the final CSV edits.
PlRunAll ==
    /\ PlNext("run_all")
    /\ LET c == Head(pl_todo) IN
       IF ~MatchesSeasonFormat(seasons[c.season])
          THEN PlReject
          ELSE /\ PlGoOn(pull_and_collect_fpl_data(c.season, "run_all")
                         \o pull_and_collect_fbref_data(c.season, c.idx, "run_all")
                         \o <<Call("final_csv_edits", c.season, FALSE, "run_all")>>)
               /\ UNCHANGED pl_log
    /\ PipeArgsUnchanged
    /\ UNCHANGED notPipeVars

\* global_scraper, lines 77-168: the season is checked against the format
\* before the results directory is made; any failure after that is raised.
PlGlobalScraper ==
    /\ PlNext("global_scraper")
    /\ IF ~MatchesSeasonFormat(seasons[Head(pl_todo).season])
          THEN PlReject /\ PipeArgsUnchanged /\ UNCHANGED notPipeVars
          ELSE PlStageRaising("global_scraper")

\* fpl_data_past_season, lines 252-277: the download loop is in a try block
\* whose handler only logs.
PlFplDataPastSeason ==
    /\ PlNext("fpl_data_past_season")
    /\ IF ~MatchesSeasonFormat(seasons[Head(pl_todo).season])
          THEN PlReject /\ PipeArgsUnchanged /\ UNCHANGED notPipeVars
          ELSE PlStageSwallowing("fpl_data_past_season")

\* clean_players, called at line 285 outside any try block of its caller.
PlCleanPlayers ==
    /\ PlNext("clean_players")
    /\ PlStageRaising("clean_players")

\* collect_fbref_ids, lines 100-113: logs and re-raises.
PlCollectFbrefIds ==
    /\ PlNext("collect_fbref_ids")
    /\ PlStageRaising("collect_fbref_ids")

\* merge_fpl_fbref_ids, lines 143-207: logs and re-raises.
PlMergeFplFbrefIds ==
    /\ PlNext("merge_fpl_fbref_ids")
    /\ PlStageRaising("merge_fpl_fbref_ids")

\* collect_fbref_data, lines 209-249: the whole body is in a try block whose
\* handler only logs.
PlCollectFbrefData ==
    /\ PlNext("collect_fbref_data")
    /\ PlStageSwallowing("collect_fbref_data")

\* final_csv_edits, lines 296-335: logs and re-raises.
PlFinalCsvEdits ==
    /\ PlNext("final_csv_edits")
    /\ PlStageRaising("final_csv_edits")

\* Nothing is left to call: the entry point returns.
PlReturn ==
    /\ pl_pc = "running"
    /\ pl_todo = <<>>
    /\ pl_pc' = "returned"
    /\ UNCHANGED <<pl_todo, pl_log, pl_error>>
    /\ PipeArgsUnchanged
    /\ UNCHANGED notPipeVars

PipeNext ==
    \/ PlRunAllSeasons
    \/ PlCollectAllSeasonsIdx
    \/ PlRunAll
    \/ PlGlobalScraper
    \/ PlFplDataPastSeason
    \/ PlCleanPlayers
    \/ PlCollectFbrefIds
    \/ PlMergeFplFbrefIds
    \/ PlCollectFbrefData
    \/ PlFinalCsvEdits
    \/ PlReturn

(***************************************************************************)
(* get_previous_season and season strings                                  *)
(***************************************************************************)

\* A season string is the sequence of its characters: "2009-10" is
\* <<"2", "0", "0", "9", "-", "1", "0">>.
DigitChars == <<"0", "1", "2", "3", "4", "5", "6", "7", "8", "9">>

IsDigit(c) == \E d \in DOMAIN DigitChars : DigitChars[d] = c

DigitOf(c) == (CHOOSE d \in DOMAIN DigitChars : DigitChars[d] = c) - 1

\* str(n) for n >= 0
RECURSIVE StrNat(_)
StrNat(n) ==
    IF n < 10 THEN <<DigitChars[n + 1]>>
    ELSE Append(StrNat(n \div 10), DigitChars[(n % 10) + 1])

\* str(n)
str(n) == IF n < 0 THEN <<"-">> \o StrNat(-n) ELSE StrNat(n)

\* The number a sequence of digits spells.
RECURSIVE NatOf(_)
NatOf(s) ==
    IF s = <<>> THEN 0
    ELSE 10 * NatOf(SubSeq(s, 1, Len(s) - 1)) + DigitOf(s[Len(s)])

AllDigits(s) == s # <<>> /\ \A i \in DOMAIN s : IsDigit(s[i])

\* int(s), for strings of digits and "-": a value, or ValueError.
int(s) ==
    IF AllDigits(s) THEN [ok |-> TRUE, val |-> NatOf(s)]
    ELSE IF s # <<>> /\ s[1] = "-" /\ AllDigits(Tail(s))
            THEN [ok |-> TRUE, val |-> 0 - NatOf(Tail(s))]
            ELSE [ok |-> FALSE, val |-> 0]

\* s[:n], s[n:] and s[-n:]
SliceTo(s, n) == SubSeq(s, 1, IF n < Len(s) THEN n ELSE Len(s))
SliceFrom(s, n) == SubSeq(s, n + 1, Len(s))
SliceLast(s, n) == SubSeq(s, IF Len(s) > n THEN Len(s) - n + 1 ELSE 1, Len(s))

ValueError == <<"ValueError">>

\* Lines 35-45: both years are read with int(), one is subtracted from
\* each, and the result is f"{start - 1}-{str(end - 1)[-2:]}".
get_previous_season(s) ==
    LET start_year == int(SliceTo(s, 4))
        end_year == int(SliceFrom(s, 5))
    IN IF ~start_year.ok \/ ~end_year.ok THEN ValueError
       ELSE str(start_year.val - 1) \o <<"-">>
            \o SliceLast(str(end_year.val - 1), 2)

\* n written with at least w digits.
RECURSIVE ZeroPad(_, _)
ZeroPad(s, w) == IF Len(s) >= w THEN s ELSE ZeroPad(<<"0">> \o s, w)

\* The season that starts in year y, in the form YYYY-YY.
SeasonString(y) == ZeroPad(StrNat(y), 4) \o <<"-">> \o ZeroPad(StrNat((y + 1) % 100), 2)

\* The forward-season step: one is added to both years, which are read as
\* get_previous_season reads them and written in the form YYYY-YY.
ForwardSeason(s) ==
    LET start_year == int(SliceTo(s, 4))
        end_year == int(SliceFrom(s, 5))
    IN IF ~start_year.ok \/ ~end_year.ok THEN ValueError
       ELSE ZeroPad(str(start_year.val + 1), 4) \o <<"-">>
            \o ZeroPad(StrNat((end_year.val + 1) % 100), 2)

\* Start years of the seasons explored.
StartYears == 1997..2012

\* Largest number of steps applied to a season string explored.
MaxSteps == 4

SeasonIdle ==
    /\ sn_pc = "idle"
    /\ season_str = <<>>
    /\ season0 = <<>>
    /\ season_ops = <<>>

SeasonInit ==
    /\ sn_pc = "ready"
    /\ \E y \in StartYears : season0 = SeasonString(y)
    /\ season_str = season0
    /\ season_ops = <<>>

SeasonStep(op, result) ==
    /\ season_ops' = Append(season_ops, op)
    /\ IF result = ValueError
          THEN sn_pc' = "raised" /\ UNCHANGED season_str
          ELSE season_str' = result /\ UNCHANGED sn_pc
    /\ UNCHANGED season0
    /\ UNCHANGED notSeasonVars

\* prev_season = get_previous_season(season)
SeasonPrevious ==
    /\ sn_pc = "ready"
    /\ Len(season_ops) < MaxSteps
    /\ SeasonStep("previous", get_previous_season(season_str))

\* The season after the one in hand is taken.
SeasonForward ==
    /\ sn_pc = "ready"
    /\ Len(season_ops) < MaxSteps
    /\ SeasonStep("forward", ForwardSeason(season_str))

SeasonNext == SeasonPrevious \/ SeasonForward

(***************************************************************************)
(* get_ids                                                                 *)
(***************************************************************************)

\* Largest number of URLs in url_list explored.
MaxUrls == 3

\* The number of '/'-separated parts of a URL get_ids takes a player from.
PlayerUrlParts == 5

\* A URL by the parts str(url).split("/") gives, each part by its pieces,
\* hyphens included.
PlayerUrl(id, name) == << <<>>, <<"en">>, <<"players">>, id, name >>

\* The URLs explored: three players' pages, of which two differ in the id
\* only and two in the name only, a URL with one part less, and one with
\* one part more.
UrlsExplored ==
    {PlayerUrl(<<"x">>, <<"Ben", "-", "Davies">>),
     PlayerUrl(<<"y">>, <<"Ben", "-", "Davies">>),
     PlayerUrl(<<"x">>, <<"Tom", "-", "Davies">>),
     << <<>>, <<"en">>, <<"players">>, <<"x">> >>,
     << <<>>, <<"en">>, <<"players">>, <<"x">>, <<"matchlogs">>,
        <<"Ben", "-", "Davies">> >>}

\* Lines 122-128: the dictionary made of a URL of five parts.
player_data(url) ==
    [name |-> HyphensToSpaces(url[Len(url)]), id |-> url[4]]

\* Lines 117-131: the list ids, one dictionary per URL of five parts.
IdsOf(urls) ==
    LET players == SelectSeq(urls, LAMBDA url : Len(url) = PlayerUrlParts)
    IN [i \in DOMAIN players |-> player_data(players[i])]

\* Line 133: the lists that `[dict(t) for t in {tuple(d.items()) ...}]`
\* can be.  A set is iterated in the order of its hash table, and the
\* hashes of strings change from one interpreter process to the next, so it
\* is any list of the distinct dictionaries.
SetOrders(ids) ==
    {order \in [1..Cardinality(Range(ids)) -> Range(ids)] : IsInjective(order)}

IdsInit ==
    /\ ids_pc = "call"
    /\ url_list \in SeqsBetween(UrlsExplored, 0, MaxUrls)
    /\ unique_ids = <<>>

\* Lines 112-113: `if not url_list: raise ValueError`.
IdsRaise ==
    /\ ids_pc = "call"
    /\ url_list = <<>>
    /\ ids_pc' = "raised"
    /\ UNCHANGED <<url_list, unique_ids>>
    /\ UNCHANGED notIdsVars

\* Lines 115-134: the loop over url_list, then the list of the set.
IdsReturn ==
    /\ ids_pc = "call"
    /\ url_list # <<>>
    /\ unique_ids' \in SetOrders(IdsOf(url_list))
    /\ ids_pc' = "returned"
    /\ UNCHANGED url_list
    /\ UNCHANGED notIdsVars

get_ids == IdsRaise \/ IdsReturn

IdsIdle ==
    /\ ids_pc = "idle"
    /\ url_list = <<>>
    /\ unique_ids = <<>>

\* The gameweek merge, the runners and the season strings at rest.
RunnersIdle == MergeIdle /\ PipeIdle /\ SeasonIdle /\ IdsIdle


(***************************************************************************)
(* Specifications                                                          *)
(***************************************************************************)

InitFpl ==
    /\ FplInit
    /\ BatchIdle
    /\ FuzzyIdle
    /\ ReconIdle
    /\ RunnersIdle

SpecFpl == InitFpl /\ [][make_fpl_request]_vars

InitBatch ==
    /\ BatchInit
    /\ FplIdle
    /\ FuzzyIdle
    /\ ReconIdle
    /\ RunnersIdle

SpecBatch == InitBatch /\ [][BatchNext]_vars

\* The batch functions under the scheduling of a running interpreter: a
\* statement that can execute does.
SpecBatchLive == InitBatch /\ [][BatchNext]_vars /\ WF_vars(BatchNext)

InitFuzzy ==
    /\ FuzzyInit
    /\ FplIdle
    /\ BatchIdle
    /\ ReconIdle
    /\ RunnersIdle

SpecFuzzy == InitFuzzy /\ [][FuzzyNext]_vars

InitRecon ==
    /\ ReconInit
    /\ FplIdle
    /\ BatchIdle
    /\ FuzzyIdle
    /\ RunnersIdle

SpecRecon == InitRecon /\ [][ReconNext]_vars

InitSift ==
    /\ SiftInit
    /\ FplIdle
    /\ BatchIdle
    /\ FuzzyIdle
    /\ RunnersIdle

SpecSift == InitSift /\ [][ReconNext]_vars

InitRerun ==
    /\ RerunInit
    /\ FplIdle
    /\ BatchIdle
    /\ FuzzyIdle
    /\ RunnersIdle

\* merge_fpl_fbref_ids run twice on the same files.
RerunNext ==
    \/ ReconNext
    \/ Rerun

SpecRerun == InitRerun /\ [][RerunNext]_vars

InitMerge ==
    /\ MergeInit
    /\ FplIdle
    /\ BatchIdle
    /\ FuzzyIdle
    /\ ReconIdle
    /\ PipeIdle
    /\ SeasonIdle
    /\ IdsIdle

SpecMerge == InitMerge /\ [][merge_all_gameweeks]_vars

InitPipe ==
    /\ PipeInit
    /\ FplIdle
    /\ BatchIdle
    /\ FuzzyIdle
    /\ ReconIdle
    /\ MergeIdle
    /\ SeasonIdle
    /\ IdsIdle

SpecPipe == InitPipe /\ [][PipeNext]_vars

InitSeason ==
    /\ SeasonInit
    /\ FplIdle
    /\ BatchIdle
    /\ FuzzyIdle
    /\ ReconIdle
    /\ MergeIdle
    /\ PipeIdle
    /\ IdsIdle

SpecSeason == InitSeason /\ [][SeasonNext]_vars

InitIds ==
    /\ IdsInit
    /\ FplIdle
    /\ BatchIdle
    /\ FuzzyIdle
    /\ ReconIdle
    /\ MergeIdle
    /\ PipeIdle
    /\ SeasonIdle

SpecIds == InitIds /\ [][get_ids]_vars

(***************************************************************************)
(* Properties of make_fpl_request                                          *)
(***************************************************************************)

IsRetryable(o) == o.kind \in {"connection", "timeout"}

AllConnectionFailures ==
    \A i \in 1..Len(fpl_outcomes) : IsRetryable(fpl_outcomes[i])

\* C6 (as claimed): a 429 on an attempt that is not the last is followed by
\* a sleep of the Retry-After value (else of retry_delay) and by another GET,
\* so the call is never over with the 429 as its last request.
C6_RateLimitIsRetried ==
    \A i \in 1..Len(fpl_outcomes) :
        LET o == fpl_outcomes[i] IN
        (o.kind = "http" /\ o.status = 429 /\ i < max_retries
            /\ fpl_pc # "loop")
        => /\ Len(fpl_outcomes) > i
           /\ Len(fpl_sleeps) >= i
           /\ fpl_sleeps[i] = HeaderOr(o.retry_after, fpl_delay0)

\* C7: an HTTP error status other than 429, or a body that is not JSON, is
\* the last GET of the call and no sleep follows it; the first raises
\* FPLRequestError carrying the status, the second FPLDataParsingError.
C7_NonRetryableFailsAtOnce ==
    \A i \in 1..Len(fpl_outcomes) :
        LET o == fpl_outcomes[i] IN
        /\ (o.kind = "http" /\ o.status # 429)
            => /\ i = Len(fpl_outcomes)
               /\ Len(fpl_sleeps) = i - 1
               /\ fpl_pc = "raised"
               /\ fpl_result = FPLRequestError(o.status)
        /\ o.kind = "badjson"
            => /\ i = Len(fpl_outcomes)
               /\ Len(fpl_sleeps) = i - 1
               /\ fpl_pc = "raised"
               /\ fpl_result = FPLDataParsingError
               /\ fpl_result.kind # FPLRequestError(0).kind

C7_Witness ==
    /\ fpl_pc = "raised"
    /\ Len(fpl_outcomes) = 2
    /\ fpl_outcomes[2].kind = "badjson"
    /\ fpl_result = FPLDataParsingError

\* C8: with max_retries >= 1 and every attempt failing with a connection or
\* timeout error the call issues exactly max_retries GETs, sleeps
\* retry_delay after each but the last, and raises FPLRequestError; a
\* successful attempt is the last GET and returns the payload.
C8_ConnectionRetries ==
    LET n == Len(fpl_outcomes) IN
    /\ (max_retries >= 1 /\ AllConnectionFailures)
        => /\ \A j \in 1..Len(fpl_sleeps) : fpl_sleeps[j] = fpl_delay0
           /\ fpl_pc = "loop"
                => n < max_retries /\ Len(fpl_sleeps) = n
           /\ fpl_pc # "loop"
                => /\ n = max_retries
                   /\ Len(fpl_sleeps) = max_retries - 1
                   /\ fpl_pc = "raised"
                   /\ fpl_result = FPLRequestError(0)
    /\ \A i \in 1..n :
         fpl_outcomes[i].kind = "ok"
            => /\ i = n
               /\ fpl_pc = "returned"
               /\ fpl_result = Payload
               /\ Len(fpl_sleeps) = i - 1

C8_Witness ==
    /\ max_retries = 3
    /\ AllConnectionFailures
    /\ Len(fpl_outcomes) = 3
    /\ Len(fpl_sleeps) = 2
    /\ fpl_pc = "raised"

\* C30 (as claimed): for every max_retries >= 0 and every sequence of
\* request outcomes, make_fpl_request returns the parsed payload of a
\* successful response or raises FPLRequestError or FPLDataParsingError; it
\* never returns None.
C30_PayloadOrRaise ==
    /\ fpl_pc = "returned"
        => /\ fpl_result = Payload
           /\ fpl_outcomes # <<>>
           /\ HandlerOf(fpl_outcomes[Len(fpl_outcomes)]) = "none"
    /\ fpl_pc = "raised"
        => \/ fpl_result = FPLDataParsingError
           \/ \E status \in {0} \cup HttpErrorStatuses :
                 fpl_result = FPLRequestError(status)

(***************************************************************************)
(* Properties of the batch loops                                           *)
(***************************************************************************)

ConfigurationErrors == {"ValueError", "FBRefRateLimitError"}

C10_PacedRequests ==
    \A i, j \in 1..Len(batch_log) :
        (/\ batch_fn \in {"collect_players_data", "collect_team_players"}
         /\ i < j
         /\ batch_log[i].ev = "get"
         /\ batch_log[j].ev = "get"
         /\ \A k \in (i + 1)..(j - 1) : batch_log[k].ev # "get")
        => \E k \in (i + 1)..(j - 1) :
              /\ batch_log[k].ev = "sleep"
              /\ AtLeast(batch_log[k].dur, [num |-> 60, den |-> call_rate])

\* Equal durations.
SameDuration(d1, d2) == AtLeast(d1, d2) /\ AtLeast(d2, d1)

\* The positions of batch_log holding a GET for item i.
GetsOf(i) ==
    {k \in DOMAIN batch_log : batch_log[k].ev = "get" /\ batch_log[k].item = i}

\* C11 (as claimed): in collect_players_data the sleep that follows every
\* successful fetch lasts 60 / call_rate seconds, also after a rate-limit
\* response earlier in the batch.
C11_PacingRestored ==
    batch_fn = "collect_players_data"
    => \A k \in DOMAIN batch_log :
         (batch_log[k].ev = "get" /\ batch_log[k].res = "ok")
         => /\ k < Len(batch_log)
            /\ batch_log[k + 1].ev = "sleep"
            /\ SameDuration(batch_log[k + 1].dur, PacingDelay(call_rate))

\* C12 (as claimed): in collect_players_data a fetch that fails with a
\* parsing failure or a non-429 HTTP error is the only GET issued for that
\* player.
C12_FailedFetchNotRepeated ==
    batch_fn = "collect_players_data"
    => \A k \in DOMAIN batch_log :
         (batch_log[k].ev = "get" /\ batch_log[k].res = "error")
         => GetsOf(batch_log[k].item) = {k}

\* The items whose GET succeeded, in the order of the GETs.
RECURSIVE FetchedItems(_)
FetchedItems(log) ==
    IF log = <<>> THEN <<>>
    ELSE LET rest == FetchedItems(SubSeq(log, 1, Len(log) - 1))
             e == log[Len(log)]
         IN IF e.ev = "get" /\ e.res = "ok" THEN Append(rest, e.item) ELSE rest

PlayerLoops == {"collect_players_data", "global_scraper"}

\* The most GETs one player can take in the running loop.
AttemptsAllowed ==
    IF batch_fn = "collect_players_data" THEN batch_retries ELSE 1

\* A per-player failure aborts nothing: the loop raises nothing, the result
\* is exactly the players whose fetch succeeded, in roster order, no player
\* takes more than max_retries GETs, and when the loop is over every player
\* (with a str id_fbref, for collect_players_data) has been attempted.
C19_NoAbort ==
    (batch_fn \in PlayerLoops /\ ~CallRateTooHigh(call_rate))
    => /\ batch_pc # "raised"
       /\ collected = FetchedItems(batch_log)
       /\ \A a, b \in DOMAIN collected : a < b => collected[a] < collected[b]
       /\ \A i \in DOMAIN batch_items :
            Cardinality(GetsOf(i)) <= AttemptsAllowed
       /\ batch_pc = "returned"
            => \A i \in DOMAIN batch_items :
                 (batch_items[i] /\ AttemptsAllowed > 0) => GetsOf(i) # {}

C27_UrlListOrRaise ==
    \A k \in DOMAIN batch_log :
        batch_log[k].ev = "extend" => batch_log[k].res = PlayerUrls

(***************************************************************************)
(* Properties of fuzzy_match                                               *)
(***************************************************************************)

\* C5: for a threshold in 0..100 and a scorer that answers, fuzzy_match
\* returns the scorer's top candidate when its score is at or above the
\* threshold and NaN otherwise; threshold - 1 is rejected, threshold taken.
C5_ThresholdBoundary ==
    (fz_pc # "call" /\ fz_threshold \in 0..100 /\ fz_top # NoneTop)
    => /\ fz_pc = "returned"
       /\ fz_top.score >= fz_threshold => fz_result = fz_top.match
       /\ fz_top.score < fz_threshold => fz_result = NaN
       /\ fz_top.score = fz_threshold - 1 => fz_result = NaN
       /\ fz_top.score = fz_threshold => fz_result = fz_top.match

C5_Witness ==
    /\ fz_pc = "returned"
    /\ fz_threshold = 95
    /\ fz_top.score = 95
    /\ fz_result = fz_top.match
    /\ fz_result # NaN

(***************************************************************************)
(* Properties of the reconciler                                            *)
(***************************************************************************)

\* process_player_matches has returned.
Assembled == rc_pc \in {"save_data", "done"}

\* The MatchRecords of the FPL player with this id.
RecordsOf(id) == {k \in DOMAIN final_matched : final_matched[k].id_fpl = id}

\* The FBRef rows whose name, split at its first space, is the player's
\* (first_name, second_name).
ExactHits(p) ==
    SelectSeq(fbref_ids, LAMBDA f : /\ <<f.name[1]>> = p.first_name
                                    /\ Tail(f.name) = p.second_name)

\* C1 (as claimed): after the fuzzy step no two FPL players have the same
\* FBRef name as their fuzzy match.
C1_NoSharedFuzzyMatch ==
    \A i, j \in DOMAIN unmatched :
        (/\ unmatched[i].id_fpl # unmatched[j].id_fpl
         /\ ~isna(unmatched[i].fuzzy_match))
        => unmatched[i].fuzzy_match # unmatched[j].fuzzy_match

\* C2: the merged table holds exactly one MatchRecord for every FPL player,
\* under that player's names, and nothing else, so no id_fpl occurs twice.
C2_OneRecordPerPlayer ==
    Assembled
    => /\ Len(final_matched) = Len(fpl_ids)
       /\ \A i \in DOMAIN fpl_ids :
            /\ Cardinality(RecordsOf(fpl_ids[i].id)) = 1
            /\ \A k \in RecordsOf(fpl_ids[i].id) :
                 /\ final_matched[k].first_name_fpl = fpl_ids[i].first_name
                 /\ final_matched[k].second_name_fpl = fpl_ids[i].second_name
       /\ \A k, l \in DOMAIN final_matched :
            final_matched[k].id_fpl = final_matched[l].id_fpl => k = l

C2_Witness ==
    /\ rc_pc = "done"
    /\ Len(fpl_ids) = 2
    /\ Len(fbref_ids) = 2
    /\ fbref_ids[1].name = fbref_ids[2].name
    /\ Len(ExactHits(fpl_ids[1])) = 2
    /\ Len(matched) > 1
    /\ \E i \in DOMAIN unmatched : ~isna(unmatched[i].id_fbref)
    /\ Len(final_matched) = 2

\* C3 (as claimed): a player's full name is in the missing-players list
\* exactly when the player's MatchRecord has id_fbref unset.
C3_MissingIffUnset ==
    Assembled
    => \A i \in DOMAIN fpl_ids :
         (full_name_full(fpl_ids[i]) \in Range(missing_players))
         <=> (\E k \in RecordsOf(fpl_ids[i].id) :
                 isna(final_matched[k].id_fbref))

\* C4: a player with an exact-join hit has that FBRef row's name and id in
\* the merged table (the first such row when the name has several ids),
\* whatever the later steps did.
C4_ExactMatchIsFinal ==
    Assembled
    => \A i \in DOMAIN fpl_ids :
         ExactHits(fpl_ids[i]) # <<>>
         => \A k \in RecordsOf(fpl_ids[i].id) :
               /\ final_matched[k].id_fbref = ExactHits(fpl_ids[i])[1].id
               /\ final_matched[k].name_fbref = ExactHits(fpl_ids[i])[1].name

C4_Witness ==
    /\ rc_pc = "done"
    /\ Len(fpl_ids) = 2
    /\ ExactHits(fpl_ids[1]) # <<>>
    /\ previous_merged_ids.exists
    /\ \E q \in Range(previous_merged_ids.rows) :
          /\ q.first_name_fpl = fpl_ids[1].first_name
          /\ q.second_name_fpl = fpl_ids[1].second_name
          /\ ~isna(q.id_fbref)
    /\ \E i \in DOMAIN unmatched : ~isna(unmatched[i].fuzzy_match)
    /\ final_matched[1].id_fbref = ExactHits(fpl_ids[1])[1].id

\* The id_fbref values last season's table holds for the player's names.
PrevIdsOf(p) ==
    {q.id_fbref : q \in {q \in Range(previous_merged_ids.rows) :
                            /\ q.first_name_fpl = p.first_name
                            /\ q.second_name_fpl = p.second_name
                            /\ ~isna(q.id_fbref)}}

\* The split into matched and unmatched has been made.
Split ==
    rc_pc \in {"sift_strict_last", "sift_loose_first", "manual_sift",
              "process_player_matches", "save_data", "done"}

\* C13 (as claimed): a player without an exact hit whose names have a
\* record with id_fbref set in last season's table gets that id and is not
\* passed to fuzzy matching; an id_fbref set by the exact join is not
\* overwritten; without last season's file the exact-join result is kept.
C13_CarryForward ==
    /\ (Split /\ previous_merged_ids.exists)
        => \A i \in DOMAIN fpl_ids :
             LET p == fpl_ids[i] IN
             /\ (ExactHits(p) = <<>> /\ PrevIdsOf(p) # {})
                 => /\ \A k \in DOMAIN unmatched : unmatched[k].id_fpl # p.id
                    /\ \E k \in DOMAIN matched : matched[k].id_fpl = p.id
                    /\ \A k \in DOMAIN matched :
                         matched[k].id_fpl = p.id
                         => matched[k].id_fbref \in PrevIdsOf(p)
             /\ ExactHits(p) # <<>>
                 => \A k \in DOMAIN merged :
                      merged[k].id_fpl = p.id
                      => merged[k].id_fbref \in
                            {ExactHits(p)[h].id : h \in DOMAIN ExactHits(p)}
    /\ (rc_pc \notin {"idle", "start", "carry_forward", "raised"}
          /\ ~previous_merged_ids.exists)
        => merged = Flatten([i \in DOMAIN fpl_ids |-> ExactJoinRows(fpl_ids[i])])

\* C18 (as claimed): the two artifacts are written both or not at all, and
\* a run of merge_fpl_fbref_ids that raised has written neither.
C18_BothOrNeither ==
    /\ saved \in {{}, {"player_compiled_ids.csv", "missing_fbref_ids.json"}}
    /\ rc_pc = "raised" => saved = {}

\* The row of unmatched changed as the text has it, for a step of
\* manual_sift that prompted for it.
ManualOutcome(row, text) ==
    IF text.kind # "empty" /\ Len(text.path) = 5
       THEN /\ unmatched'[row].id_fbref = text.path[4]
            /\ unmatched'[row].name =
                  SelectSeq(text.path[5], LAMBDA piece : piece # "-")
       ELSE isna(unmatched'[row].id_fbref)

\* C22: manual_sift prompts exactly for the rows with id_fbref unset, in
\* order; a non-empty response whose URL path has exactly 5 segments sets
\* id_fbref to the segment at index 3 and name to the last segment with
\* its hyphens replaced by spaces; an empty response or a URL with another
\* segment count leaves id_fbref unset; no other row is changed.
C22_ManualAnswer ==
    [][(rc_pc = "manual_sift")
       => /\ typed' # typed
            => /\ typed'.at = "manual_sift"
               /\ typed'.row \in DOMAIN unmatched
               /\ isna(unmatched[typed'.row].id_fbref)
               /\ \A i \in DOMAIN unmatched :
                    (cursor < i /\ i < typed'.row)
                    => ~isna(unmatched[i].id_fbref)
               /\ DOMAIN unmatched' = DOMAIN unmatched
               /\ \A i \in DOMAIN unmatched :
                    i # typed'.row => unmatched'[i] = unmatched[i]
               /\ ManualOutcome(typed'.row, typed'.text)
          /\ typed' = typed
            => /\ unmatched' = unmatched
               /\ rc_pc' # rc_pc
                    => \A i \in DOMAIN unmatched :
                         cursor < i => ~isna(unmatched[i].id_fbref)
      ]_vars

C22_Witness ==
    /\ rc_pc = "manual_sift"
    /\ typed.at = "manual_sift"
    /\ typed.row = 2
    /\ Len(typed.text.path) = 5
    /\ unmatched[2].id_fbref = <<"m">>
    /\ unmatched[2].name = <<"Ben", "Davies">>
    /\ isna(unmatched[1].id_fbref)
    /\ unmatched[1].name = full_name_full(unmatched[1])

\* The id of the FBRef row that is the k-th candidate presented: of the
\* rows with that name, in roster order, the one that comes as often as
\* the name has come in the list up to k.
CandidateId(k) ==
    LET rows == SelectSeq(fbref_ids, LAMBDA f : f.name = presented'[k])
        nth == Cardinality({i \in 1..k : presented'[i] = presented'[k]})
    IN rows[nth].id

\* C23 (as claimed): in sift_names, for a player shown n candidates, the
\* answer k with 1 <= k <= n sets the player's fuzzy_match to the k-th
\* candidate presented and id_fbref to that candidate's FBRef id; nothing
\* or 0 leaves the player unresolved; any other answer prompts again with
\* no record changed; no other player's record is changed.
C23_SiftAnswer ==
    [][(rc_pc \in SiftPasses /\ typed' # typed)
       => LET row == typed'.row
              text == typed'.text
              n == Len(presented')
          IN /\ typed'.at = rc_pc
             /\ DOMAIN unmatched' = DOMAIN unmatched
             /\ \A i \in DOMAIN unmatched :
                  i # row => unmatched'[i] = unmatched[i]
             /\ CASE text.kind = "number" /\ text.n \in 1..n
                       -> /\ unmatched'[row].fuzzy_match = presented'[text.n]
                          /\ unmatched'[row].id_fbref = CandidateId(text.n)
                          /\ cursor' = row
                    [] text.kind = "empty"
                         \/ (text.kind = "number" /\ text.n = 0)
                       -> /\ unmatched' = unmatched
                          /\ cursor' = row
                    [] OTHER
                       -> /\ unmatched' = unmatched
                          /\ cursor' = cursor
                          /\ rc_pc' = rc_pc
      ]_vars

\* The FBRef names another player than the one in row `row` of unmatched
\* has: by the exact join, by the fuzzy step or by a selection in
\* sift_names.
ClaimedByOthers(row) ==
    {matched[i].name : i \in {j \in DOMAIN matched : ~isna(matched[j].name)}}
    \cup {unmatched[i].fuzzy_match :
            i \in {j \in DOMAIN unmatched :
                     j # row /\ ~isna(unmatched[j].fuzzy_match)}}

\* C24 (as claimed): the list sift_names presents for an unresolved player
\* never contains an FBRef name that another player already has, be it by
\* a selection earlier in the pass, by the fuzzy step or otherwise.
C24_NoClaimedCandidate ==
    [][(rc_pc \in SiftPasses /\ typed' # typed)
       => \A k \in DOMAIN presented' :
            presented'[k] \notin ClaimedByOthers(typed'.row)
      ]_vars

\* How often a name is in a list.
Occurrences(name, list) == Cardinality({i \in DOMAIN list : list[i] = name})

\* C25 (as claimed): the list sift_names presents is a reordering of the
\* filtered candidate list: in 'strict' mode every filtered candidate
\* exactly once, by non-increasing score; in 'loose' mode the filtered
\* list in FBRef order.
C25_PresentedIsReordering ==
    [][(rc_pc \in SiftPasses /\ typed' # typed)
       => LET r == unmatched[typed'.row]
              filtered == need_matching_names(r)
          IN IF SiftLevel = "strict"
                THEN /\ Len(presented') = Len(filtered)
                     /\ \A name \in Range(filtered) :
                          Occurrences(name, presented')
                            = Occurrences(name, filtered)
                     /\ \A i, j \in DOMAIN presented' :
                          i < j => ScoreOf(SiftQuery(r), presented'[i], scores')
                                   >= ScoreOf(SiftQuery(r), presented'[j],
                                              scores')
                ELSE presented' = filtered
      ]_vars

\* C28 (as claimed): in the merged table a MatchRecord has name_fbref set
\* exactly when it has id_fbref set, whichever step resolved the player.
C28_NameIffId ==
    Assembled
    => \A k \in DOMAIN final_matched :
         isna(final_matched[k].name_fbref) <=> isna(final_matched[k].id_fbref)

MergeOver == mg_pc \in {"returned", "raised"}

GwRange == start_gw..end_gw

\* The tagged rows of the gameweek files a..b that can be read, in
\* ascending gameweek order.
RECURSIVE AvailableRows(_, _)
AvailableRows(a, b) ==
    IF a > b THEN <<>>
    ELSE AvailableRows(a, b - 1)
         \o (IF gw_files[b].kind = "csv"
                THEN [i \in DOMAIN gw_files[b].rows |->
                        TaggedRow(gw_files[b].rows[i], b)]
                ELSE <<>>)

\* C14: after merge_all_gameweeks the merged file is one header followed by
\* the rows of every available gameweek of start_gw..end_gw, in ascending
\* order, each tagged with its gameweek, and nothing else (no file at all
\* when no gameweek of the range could be read).
C14_MergedContent ==
    MergeOver
    => IF \E n \in GwRange : gw_files[n].kind = "csv"
          THEN merged_file =
                 [exists |-> TRUE,
                  lines |-> <<HeaderLine>> \o AvailableRows(start_gw, end_gw)]
          ELSE merged_file = AbsentFile

C14_Witness ==
    /\ MergeOver
    /\ start_gw = 1
    /\ end_gw = 3
    /\ gw_files[2].kind = "missing"
    /\ gw_files[1] = CsvGw(<<"r">>)
    /\ gw_files[3] = CsvGw(<<"s">>)
    /\ merged_file.lines = <<HeaderLine, TaggedRow("r", 1), TaggedRow("s", 3)>>

\* C15 (as claimed): with exactly one gameweek file of the range absent and
\* the others readable, merge_all_gameweeks completes without raising.
C15_MissingFileTolerated ==
    (/\ MergeOver
     /\ Cardinality({n \in GwRange : gw_files[n].kind = "missing"}) = 1
     /\ \A n \in GwRange : gw_files[n].kind \in {"missing", "csv"})
    => mg_pc = "returned"

(***************************************************************************)
(* Properties of the runners                                               *)
(***************************************************************************)

PipeOver == pl_pc \in {"returned", "raised"}

\* C16 (as claimed): when the season argument, or an element of the seasons
\* list, does not match YYYY-YY, no stage does any I/O for any season and
\* the call ends with ValueError.
C16_InvalidSeasonFailsFast ==
    (/\ pl_fn \in EntryPoints
     /\ \E i \in DOMAIN seasons : ~MatchesSeasonFormat(seasons[i]))
    => /\ pl_log = <<>>
       /\ PipeOver => (pl_pc = "raised" /\ pl_error = "ValueError")

\* C17 (as claimed): in run_all a stage that fails is the last stage of
\* the season to execute, and its error is raised to run_all's caller.
C17_StageFailureAborts ==
    pl_fn = "run_all"
    => \A k \in DOMAIN pl_log :
         ~pl_log[k].ok => (k = Len(pl_log) /\ pl_pc = "raised")

(***************************************************************************)
(* Properties of get_previous_season                                       *)
(***************************************************************************)

\* The forward step and get_previous_season, once and twice, in both
\* orders.
RoundTrips ==
    {<<"forward", "previous">>,
     <<"previous", "forward">>,
     <<"forward", "forward", "previous", "previous">>,
     <<"previous", "previous", "forward", "forward">>}

\* C20 (as claimed): for a season string of the form YYYY-YY,
\* get_previous_season composed with the forward step gives the season
\* back, also with both applied twice.
C20_RoundTrip ==
    season_ops \in RoundTrips => (sn_pc = "ready" /\ season_str = season0)

\* A string of the form YYYY-YY: the regular expression ^\d{4}-\d{2}$ of
\* run_all.py.
IsSeasonString(s) ==
    /\ Len(s) = 7
    /\ \A i \in {1, 2, 3, 4, 6, 7} : IsDigit(s[i])
    /\ s[5] = "-"

\* C29 (as claimed): for a season string YYYY-YY get_previous_season
\* returns a string of the same form, whose start year is one less and
\* whose two-digit end is one less modulo 100, zero-padded.
C29_PreviousIsSeason ==
    season_ops = <<"previous">>
    => /\ sn_pc = "ready"
       /\ IsSeasonString(season_str)
       /\ season_str =
            ZeroPad(StrNat(NatOf(SliceTo(season0, 4)) - 1), 4) \o <<"-">>
            \o ZeroPad(StrNat((NatOf(SliceFrom(season0, 5)) - 1) % 100), 2)

(***************************************************************************)
(* Properties of get_ids                                                   *)
(***************************************************************************)

\* The positions of url_list with a URL of five parts whose (name, id) no
\* such URL before it has.
FirstOccurrences ==
    {i \in DOMAIN url_list :
        /\ Len(url_list[i]) = 5
        /\ \A j \in 1..(i - 1) :
             Len(url_list[j]) = 5
             => <<url_list[j][4], url_list[j][5]>>
                  # <<url_list[i][4], url_list[i][5]>>}

\* C26 (as claimed): get_ids returns each distinct (name, id) pair of the
\* URLs of exactly 5 parts exactly once, in the order of first occurrence
\* in url_list; URLs of another number of parts give nothing, and two
\* pairs that differ in name or in id are both kept.
C26_FirstOccurrenceOrder ==
    ids_pc = "returned"
    => unique_ids =
         SubSeqAt([i \in DOMAIN url_list |->
                     [name |-> SelectSeq(url_list[i][Len(url_list[i])],
                                         LAMBDA piece : piece # "-"),
                      id |-> url_list[i][4]]],
                  FirstOccurrences)

====
